---- MODULE Spec2Model ----
(***************************************************************************)
(* The smoke-test engine of .github/actions/smoke-tests/smoke-tests.js:    *)
(* the HTTP fetcher (makeRequest), the link extractor (extractLinks), the  *)
(* retry scheduler (executeTest), the five probes and the runner           *)
(* (runTests), as one state machine.                                       *)
(*                                                                         *)
(* The program is a single JavaScript thread.  Between two suspension      *)
(* points (a request in flight, a backoff timer) the code runs without     *)
(* interleaving, so each action below is one such run-to-suspension step.  *)
(* Strings are real strings: URLs, hrefs and error messages are built and  *)
(* inspected with \o, Len and SubSeq as the code builds and inspects them. *)
(*                                                                         *)
(* Time is the clock `now`, in ms since the process started.  It advances  *)
(* when a timer fires (by the delay of the timer) and when a request ends  *)
(* (by the time the request took); synchronous code takes no time.         *)
(*                                                                         *)
(* The specifications of a run share these actions and differ in the site  *)
(* they run against: Spec (a small site that answers each request at once, *)
(* well or badly, or not at all), LargeSpec (a homepage with more links    *)
(* than the link probe checks), DownSpec (that homepage, with one fixed    *)
(* page that answers 500 while the other pages answer well), SlowSpec (a   *)
(* site that may stream a response slowly, chunk after chunk, with the     *)
(* fairness the event loop gives), CountSpec (the large site, with the     *)
(* attempts and requests of the run counted), LateSpec (a plain site, with *)
(* the events a request emits after it has ended), MixedSpec (a homepage   *)
(* where links stand among hrefs of other kinds) and NoHostSpec (a         *)
(* homepage with an href that is no URL).                                  *)
(*                                                                         *)
(* A function that keeps no state (extractLinks, and the functions of      *)
(* tools/ci) is also called on its own: the variable `call` holds its      *)
(* arguments, drawn from bounded sets, and then its result, while no run   *)
(* takes place.  ExtractSpec is the specification of these calls of        *)
(* extractLinks, VersionSpec that of tools/ci/calculate-version.js,        *)
(* ReleaseSpec that of the changelog generator followed by the version     *)
(* calculator, and DeploySpec that of tools/ci/create-deployment-record.js.*)
(***************************************************************************)
EXTENDS Integers, Sequences, FiniteSets, TLC

(***************************************************************************)
(* Bounds of the model.                                                    *)
(***************************************************************************)
\* The homepage bodies the site may serve hold at most this many anchors.
MaxHrefs == 1
\* MAX_RETRIES is given as one of the decimal strings "-1" .. MaxRetriesInput,
\* as a string that is no number, or is left unset.
MaxRetriesInput == 3
\* At most this many requests of one run are answered badly: by a response that
\* makes the awaiting probe throw or count a broken link, by an error or by a timeout.
MaxFaults == 3
\* The homepage of the large site holds this many distinct same-host links.
PageLinks == 25
\* At most this many requests of one run against the large site are answered badly.
MaxLargeFaults == 1
\* extractLinks is called with pages of at most this many elements.
MaxElements == 3
\* calculateVersionBump is called with lists of at most this many commit messages.
MaxCommits == 3
\* The runs against the large site are given at most this many retries.
MaxLargeRetries == 1
\* The time a response takes that the site streams chunk after chunk, in ms.
SlowMs == 200000
\* The runs against the site that streams are given at most this many retries.
MaxSlowRetries == 1
\* The runs whose requests are followed after their end are given at most this
\* many retries.
MaxLateRetries == 1
\* In these runs at most this many requests emit an event after their end.
MaxFollowed == 1

(***************************************************************************)
(* String helpers: String.prototype.startsWith and includes.               *)
(***************************************************************************)
StartsWith(s, p) == Len(s) >= Len(p) /\ SubSeq(s, 1, Len(p)) = p

Includes(s, sub) ==
  \E i \in 1..(Len(s) - Len(sub) + 1) : SubSeq(s, i, i + Len(sub) - 1) = sub

(***************************************************************************)
(* new URL(s), for the strings of this model: an http(s) URL parses when   *)
(* its host is not empty; a string with no scheme does not parse.          *)
(***************************************************************************)
UrlProtocol(s) ==
  IF StartsWith(s, "https://") THEN "https:"
  ELSE IF StartsWith(s, "http://") THEN "http:"
  ELSE ""

UrlAfterScheme(s) == SubSeq(s, Len(UrlProtocol(s)) + 3, Len(s))

UrlHostLen(r) ==
  LET stops == {i \in 1..Len(r) : SubSeq(r, i, i) \in {"/", "?", "#"}}
  IN  IF stops = {} THEN Len(r)
      ELSE (CHOOSE i \in stops : \A j \in stops : i <= j) - 1

UrlParses(s) == UrlProtocol(s) # "" /\ UrlHostLen(UrlAfterScheme(s)) > 0

UrlHost(s) == SubSeq(UrlAfterScheme(s), 1, UrlHostLen(UrlAfterScheme(s)))

(***************************************************************************)
(* Configuration read from the environment.                                *)
(***************************************************************************)
\* process.env.X of a variable that is not set (undefined).
Unset == "<unset>"

\* A JavaScript number that may be NaN.
Num(n) == [nan |-> FALSE, n |-> n]
NaN == [nan |-> TRUE, n |-> 0]

\* Number.parseInt(s, 10) on the strings of the model.
ParseInt(s) ==
  LET range == -9..999
  IN  IF \E n \in range : ToString(n) = s
      THEN Num(CHOOSE n \in range : ToString(n) = s)
      ELSE NaN

\* process.env.X || d
OrDefault(v, d) == IF v = Unset \/ v = "" THEN d ELSE v

\* `${x}` and String(x) of a value that may be undefined.
Str(v) == IF v = Unset THEN "undefined" ELSE v

\* x * k of a number that may be NaN.
Times(x, k) == IF x.nan THEN NaN ELSE Num(x.n * k)

\* Number.parseInt(process.env.TIMEOUT || '300', 10) * 1000
ConfigTimeout(env) == Times(ParseInt(OrDefault(env, "300")), 1000)

ConfigMaxRetries(env) == ParseInt(OrDefault(env, "2"))

SiteUrlInputs == {"https://example.com", "example.com", Unset}

MaxRetriesInputs ==
  {Unset, "abc"} \cup {ToString(n) : n \in -1..MaxRetriesInput}

TimeoutInputs == {Unset}

(***************************************************************************)
(* FetchResponse and the settled value of an awaited promise.              *)
(***************************************************************************)
\* An HTML body is the sequence of its elements; "" is the empty sequence.
\* An anchor carries the href the pattern of extractLinks captures.
Anchor(href) == [tag |-> "a", href |-> href]
Para == [tag |-> "p", href |-> ""]

Response(status, ctype, body) ==
  [statusCode |-> status,
   headers |-> IF ctype = Unset THEN <<>> ELSE ("content-type" :> ctype),
   body |-> body]

Header(headers, key) == IF key \in DOMAIN headers THEN headers[key] ELSE Unset

Resolved(v) == [ok |-> TRUE, value |-> v]
Rejected(m) == [ok |-> FALSE, message |-> m]

\* null, and an Error object with its message.
Null == [null |-> TRUE]
Err(m) == [message |-> m]

(***************************************************************************)
(* extractLinks(html, baseUrl).  A call either throws (new URL fails) or   *)
(* returns the list of links.                                              *)
(***************************************************************************)
\* The successive captures of linkRegex.exec(html).
RECURSIVE MatchedHrefs(_)
MatchedHrefs(html) ==
  IF html = <<>> THEN <<>>
  ELSE IF Head(html).tag = "a"
       THEN <<Head(html).href>> \o MatchedHrefs(Tail(html))
       ELSE MatchedHrefs(Tail(html))

SkippedHref(href) ==
  \/ StartsWith(href, "#")
  \/ StartsWith(href, "javascript:")
  \/ StartsWith(href, "mailto:")
  \/ StartsWith(href, "tel:")

AbsoluteUrl(href, baseUrl) ==
  IF StartsWith(href, "http://") \/ StartsWith(href, "https://")
  THEN href
  ELSE IF StartsWith(href, "/")
       THEN UrlProtocol(baseUrl) \o "//" \o UrlHost(baseUrl) \o href
       ELSE UrlProtocol(baseUrl) \o "//" \o UrlHost(baseUrl) \o "/" \o href

RECURSIVE ScanLinks(_, _, _)
ScanLinks(hrefs, baseUrl, links) ==
  IF hrefs = <<>> THEN [threw |-> FALSE, links |-> links]
  ELSE LET href == Head(hrefs)
           absoluteUrl == AbsoluteUrl(href, baseUrl)
       IN  IF SkippedHref(href) THEN ScanLinks(Tail(hrefs), baseUrl, links)
           ELSE IF ~UrlParses(baseUrl) \/ ~UrlParses(absoluteUrl)
                THEN [threw |-> TRUE, links |-> <<>>]
                ELSE IF UrlHost(baseUrl) = UrlHost(absoluteUrl)
                     THEN ScanLinks(Tail(hrefs), baseUrl, Append(links, absoluteUrl))
                     ELSE ScanLinks(Tail(hrefs), baseUrl, links)

\* [...new Set(links)]: the first occurrence of each string, in order.
RECURSIVE Dedup(_, _)
Dedup(links, seen) ==
  IF links = <<>> THEN <<>>
  ELSE IF Head(links) \in seen
       THEN Dedup(Tail(links), seen)
       ELSE <<Head(links)>> \o Dedup(Tail(links), seen \cup {Head(links)})

\* A scan that passes over an href that is no URL.
RECURSIVE ScanParsed(_, _, _)
ScanParsed(hrefs, baseUrl, links) ==
  IF hrefs = <<>> THEN [threw |-> FALSE, links |-> links]
  ELSE LET href == Head(hrefs)
           absoluteUrl == AbsoluteUrl(href, baseUrl)
       IN  IF SkippedHref(href) \/ ~UrlParses(absoluteUrl)
           THEN ScanParsed(Tail(hrefs), baseUrl, links)
           ELSE IF ~UrlParses(baseUrl) THEN [threw |-> TRUE, links |-> <<>>]
                ELSE IF UrlHost(baseUrl) = UrlHost(absoluteUrl)
                     THEN ScanParsed(Tail(hrefs), baseUrl, Append(links, absoluteUrl))
                     ELSE ScanParsed(Tail(hrefs), baseUrl, links)

extractLinks_SkipsUnparsed(html, baseUrl) ==
  LET r == ScanParsed(MatchedHrefs(html), baseUrl, <<>>)
  IN  IF r.threw THEN r ELSE [threw |-> FALSE, links |-> Dedup(r.links, {})]

\* An extractLinks that returns the links as pushed, duplicates included.
extractLinks_KeepsDuplicates(html, baseUrl) ==
  ScanLinks(MatchedHrefs(html), baseUrl, <<>>)

extractLinks(html, baseUrl) ==
  LET r == ScanLinks(MatchedHrefs(html), baseUrl, <<>>)
  IN  IF r.threw THEN r ELSE [threw |-> FALSE, links |-> Dedup(r.links, {})]

(***************************************************************************)
(* The five probes.  A probe is a coroutine: called with its frame at      *)
(* label "start", or resumed with the settled value of the request it      *)
(* awaits, it runs to its next await, to its return or to a throw.         *)
(***************************************************************************)
Frame(fn) == [fn |-> fn, label |-> "start", i |-> 0, links |-> <<>>, brokenLinks |-> <<>>]

Await(url, frame) == [op |-> "await", url |-> url, frame |-> frame]
Return == [op |-> "return"]
Throw(m) == [op |-> "throw", message |-> m]

\* A homepage probe that does not look at the content-type header.
testHomepageLoads_AnyContentType(siteUrl, frame, aw) ==
  IF frame.label = "start" THEN Await(Str(siteUrl), [frame EXCEPT !.label = "response"])
  ELSE IF ~aw.ok THEN Throw(aw.message)
  ELSE LET response == aw.value
       IN  IF response.statusCode # 200
           THEN Throw("Expected status 200, got " \o ToString(response.statusCode))
           ELSE IF Len(response.body) = 0
           THEN Throw("Response body is empty")
           ELSE Return

testHomepageLoads(siteUrl, frame, aw) ==
  IF frame.label = "start" THEN Await(Str(siteUrl), [frame EXCEPT !.label = "response"])
  ELSE IF ~aw.ok THEN Throw(aw.message)
  ELSE LET response == aw.value
           h == Header(response.headers, "content-type")
           contentType == IF h = Unset \/ h = "" THEN "" ELSE h
       IN  IF response.statusCode # 200
           THEN Throw("Expected status 200, got " \o ToString(response.statusCode))
           ELSE IF ~Includes(contentType, "text/html")
           THEN Throw("Expected content-type to include text/html, got " \o contentType)
           ELSE IF Len(response.body) = 0
           THEN Throw("Response body is empty")
           ELSE Return

\* A list of documentation pages with a fourth page.
DocPages_FourPages == <<"/docs/", "/docs/workflows/", "/docs/agents/", "/docs/tasks/">>

DocPages == <<"/docs/", "/docs/workflows/", "/docs/agents/">>

\* A documentation probe that fetches every page and reports the last one that
\* was not answered with 200.
testDocumentationPages_FetchesAll(siteUrl, frame, aw) ==
  IF frame.label = "start"
  THEN Await(Str(siteUrl) \o DocPages[1], [frame EXCEPT !.label = "page", !.i = 1])
  ELSE IF ~aw.ok THEN Throw(aw.message)
  ELSE LET response == aw.value
           page == DocPages[frame.i]
       IN  IF frame.i < Len(DocPages)
           THEN Await(Str(siteUrl) \o DocPages[frame.i + 1], [frame EXCEPT !.i = @ + 1])
           ELSE IF response.statusCode # 200
           THEN Throw("Page " \o page \o " returned status " \o ToString(response.statusCode))
           ELSE Return

testDocumentationPages(siteUrl, frame, aw) ==
  IF frame.label = "start"
  THEN Await(Str(siteUrl) \o DocPages[1], [frame EXCEPT !.label = "page", !.i = 1])
  ELSE IF ~aw.ok THEN Throw(aw.message)
  ELSE LET response == aw.value
           page == DocPages[frame.i]
       IN  IF response.statusCode # 200
           THEN Throw("Page " \o page \o " returned status " \o ToString(response.statusCode))
           ELSE IF frame.i < Len(DocPages)
           THEN Await(Str(siteUrl) \o DocPages[frame.i + 1], [frame EXCEPT !.i = @ + 1])
           ELSE Return

testSearchFunctionality(siteUrl, frame, aw) ==
  IF frame.label = "start"
  THEN Await(Str(siteUrl) \o "/pagefind/pagefind.js", [frame EXCEPT !.label = "response"])
  ELSE IF ~aw.ok THEN Throw(aw.message)
  ELSE LET response == aw.value
       IN  IF response.statusCode # 200
           THEN Throw("Search script not found (status " \o ToString(response.statusCode) \o ")")
           ELSE IF Len(response.body) = 0
           THEN Throw("Search script is empty")
           ELSE Return

AssetPaths == <<"/favicon.svg", "/_astro/">>
\* An accepted set without the status of a disabled directory listing.
AcceptedAssetStatus_No403 == {200, 301, 302}
AcceptedAssetStatus == {200, 301, 302, 403}

testAssetsLoad(siteUrl, frame, aw) ==
  IF frame.label = "start"
  THEN Await(Str(siteUrl) \o AssetPaths[1], [frame EXCEPT !.label = "asset", !.i = 1])
  ELSE IF ~aw.ok THEN Throw(aw.message)
  ELSE LET response == aw.value
           asset == AssetPaths[frame.i]
       IN  IF response.statusCode \notin AcceptedAssetStatus
           THEN Throw("Asset " \o asset \o " returned unexpected status "
                      \o ToString(response.statusCode))
           ELSE IF frame.i < Len(AssetPaths)
           THEN Await(Str(siteUrl) \o AssetPaths[frame.i + 1], [frame EXCEPT !.i = @ + 1])
           ELSE Return

\* links.slice(0, 20)
LinkLimit == 20
\* Every extracted link is checked.
LinksToCheck_NoLimit(links) == links

\* The last links of the page are checked.
LinksToCheck_LastLinks(links) ==
  SubSeq(links, IF Len(links) < LinkLimit THEN 1 ELSE Len(links) - LinkLimit + 1, Len(links))

LinksToCheck(links) ==
  SubSeq(links, 1, IF Len(links) < LinkLimit THEN Len(links) ELSE LinkLimit)

\* brokenLinks.map((b) => `${b.url} (${b.status || b.error})`).join(', ')
RECURSIVE BrokenList(_)
BrokenList(brokenLinks) ==
  LET b == Head(brokenLinks)
      one == b.url \o " (" \o (IF "status" \in DOMAIN b THEN ToString(b.status) ELSE b.error) \o ")"
  IN  IF Len(brokenLinks) = 1 THEN one
      ELSE one \o ", " \o BrokenList(Tail(brokenLinks))

\* The end of testNoBrokenLinks, or its next link.
BrokenLinksNext(frame) ==
  IF frame.i < Len(frame.links)
  THEN Await(frame.links[frame.i + 1], [frame EXCEPT !.i = @ + 1])
  ELSE IF Len(frame.brokenLinks) > 0
       THEN Throw("Found " \o ToString(Len(frame.brokenLinks)) \o " broken links: "
                  \o BrokenList(frame.brokenLinks))
       ELSE Return

\* A link probe that takes only a server error (5xx) or a fetch error for a
\* broken link.
testNoBrokenLinks_ServerErrorsOnly(siteUrl, frame, aw) ==
  IF frame.label = "start" THEN Await(Str(siteUrl), [frame EXCEPT !.label = "homepage"])
  ELSE IF frame.label = "homepage"
  THEN IF ~aw.ok THEN Throw(aw.message)
       ELSE LET response == aw.value
                ex == extractLinks(response.body, Str(siteUrl))
            IN  IF response.statusCode # 200
                THEN Throw("Homepage returned status " \o ToString(response.statusCode))
                ELSE IF ex.threw THEN Throw("Invalid URL")
                ELSE BrokenLinksNext([frame EXCEPT !.label = "link", !.i = 0,
                                                   !.links = LinksToCheck(ex.links)])
  ELSE LET link == frame.links[frame.i]
           broken ==
             IF ~aw.ok THEN <<[url |-> link, error |-> aw.message]>>
             ELSE IF aw.value.statusCode >= 500
                  THEN <<[url |-> link, status |-> aw.value.statusCode]>>
                  ELSE <<>>
       IN  BrokenLinksNext([frame EXCEPT !.brokenLinks = @ \o broken])

testNoBrokenLinks(siteUrl, frame, aw) ==
  IF frame.label = "start" THEN Await(Str(siteUrl), [frame EXCEPT !.label = "homepage"])
  ELSE IF frame.label = "homepage"
  THEN IF ~aw.ok THEN Throw(aw.message)
       ELSE LET response == aw.value
                ex == extractLinks(response.body, Str(siteUrl))
            IN  IF response.statusCode # 200
                THEN Throw("Homepage returned status " \o ToString(response.statusCode))
                ELSE IF ex.threw THEN Throw("Invalid URL")
                ELSE BrokenLinksNext([frame EXCEPT !.label = "link", !.i = 0,
                                                   !.links = LinksToCheck(ex.links)])
  ELSE LET link == frame.links[frame.i]
           broken ==
             IF ~aw.ok THEN <<[url |-> link, error |-> aw.message]>>
             ELSE IF aw.value.statusCode >= 400
                  THEN <<[url |-> link, status |-> aw.value.statusCode]>>
                  ELSE <<>>
       IN  BrokenLinksNext([frame EXCEPT !.brokenLinks = @ \o broken])

\* A tests array with the search probe before the documentation probe.
Tests_SearchFirst ==
  << "Homepage loads", "Search functionality works", "Documentation pages accessible",
     "Assets load correctly", "No broken links on homepage" >>

\* The tests array of runTests.
Tests ==
  << "Homepage loads", "Documentation pages accessible", "Search functionality works",
     "Assets load correctly", "No broken links on homepage" >>

TestFn(siteUrl, frame, aw) ==
  CASE frame.fn = Tests[1] -> testHomepageLoads(siteUrl, frame, aw)
    [] frame.fn = Tests[2] -> testDocumentationPages(siteUrl, frame, aw)
    [] frame.fn = Tests[3] -> testSearchFunctionality(siteUrl, frame, aw)
    [] frame.fn = Tests[4] -> testAssetsLoad(siteUrl, frame, aw)
    [] frame.fn = Tests[5] -> testNoBrokenLinks(siteUrl, frame, aw)

\* makeRequest(url) of a string new URL rejects: the executor throws, the promise
\* is rejected and no request is made.  The probe is resumed at once.  The
\* result is the effect the probe stops at and, as asked, the URLs makeRequest
\* was called with on the way.
RECURSIVE RunFn(_, _, _)
RunFn(siteUrl, frame, aw) ==
  LET e == TestFn(siteUrl, frame, aw)
  IN  IF e.op = "await" /\ ~UrlParses(e.url)
      THEN LET r == RunFn(siteUrl, e.frame, Rejected("Invalid URL"))
           IN  [effect |-> r.effect, asked |-> <<e.url>> \o r.asked]
      ELSE [effect |-> e, asked |-> IF e.op = "await" THEN <<e.url>> ELSE <<>>]

(***************************************************************************)
(* What the site may answer.  A request in flight settles by the end of a  *)
(* response, by the error event or by the timeout event.                   *)
(***************************************************************************)
\* The small site serves homepages of at most MaxHrefs anchors, the large site
\* one homepage of PageLinks links to pages of its own.  The plain site answers
\* every request with the same page of no links, when it answers.  The mixed
\* site serves a homepage where links of its own stand among hrefs of other
\* kinds, and answers the other probes as the plain site does.
SiteKinds == {"small", "large", "plain", "mixed"}

LargePage == [k \in 1..PageLinks |-> Anchor("/page" \o ToString(k))]

\* The homepages of the mixed site: two links of the site among a fragment, a
\* link of another host, a repeated link and a mail href; the large homepage
\* after seven anchors of which one is a link that was not seen before; and the
\* same behind a script href written with capitals; and a short page with an href
\* that is no URL.
ShortMixedPage ==
  <<Anchor("#top"), Anchor("/page1"), Anchor("https://other.org/x"), Anchor("/page1"),
    Anchor("mailto:dev@example.com"), Anchor("/page2")>>

LongMixedPage ==
  <<Anchor("#top"), Anchor("/page1"), Anchor("javascript:void(0)"), Anchor("/page1"),
    Anchor("mailto:dev@example.com"), Anchor("https://other.org/x"), Anchor("tel:+15550100")>>
    \o LargePage

CapitalMixedPage == <<Anchor("JavaScript:void(0)")>> \o LongMixedPage

\* A homepage with an absolute href that has no host, between two links.
NoHostHrefPage == <<Anchor("/page1"), Anchor("https://"), Anchor("/page2")>>

MixedPages == {ShortMixedPage, LongMixedPage, CapitalMixedPage}

NetworkErrorMessage == "getaddrinfo ENOTFOUND example.com"
TimeoutMessage == "Request timeout"

StatusCodes == {200, 301, 302, 403, 404, 500}
ContentTypes == {"text/html; charset=utf-8", "application/json", Unset}
HrefSamples == {"#top", "/a", "https://example.com/a", "b", "https://other.org/x", "https://"}

HtmlBodies ==
  {<<>>, <<Para>>} \cup
  UNION {[1..k -> {Anchor(h) : h \in HrefSamples}] : k \in 1..MaxHrefs}

\* The statuses other than 200 a probe is answered with that compares the status
\* with 200 only: a redirect and an error.
Not200 == {301, 404}
\* The statuses a link is answered with: the link probe compares the status with
\* 400 only.
LinkStatuses == {200, 302, 404, 500}

\* The responses the site may give to the request a probe awaits.  A field the
\* awaiting probe does not read, at all or under the response's status and
\* headers, is held at one value.  page is the homepage of the mixed site.
SiteResponses(kind, page, frame) ==
  LET html == "text/html; charset=utf-8"
      not200 == {Response(st, html, <<Para>>) : st \in Not200}
      other == {Response(st, html, <<Para>>) : st \in StatusCodes \ {200}}
  IN  CASE kind = "plain" \/ (kind = "mixed" /\ frame.fn # Tests[5]) ->
             {Response(200, html, <<Para>>)}
        [] frame.fn = Tests[1] ->
             {Response(200, ct, <<Para>>) : ct \in ContentTypes}
               \cup {Response(200, html, <<>>)} \cup not200
        [] frame.fn = Tests[2] ->
             {Response(200, html, <<Para>>)} \cup not200
        [] frame.fn = Tests[3] ->
             {Response(200, html, b) : b \in {<<>>, <<Para>>}} \cup not200
        [] frame.fn = Tests[5] /\ frame.label = "homepage" ->
             {Response(200, html, b) :
                b \in CASE kind = "large" -> {LargePage}
                         [] kind = "mixed" -> {page}
                         [] OTHER -> HtmlBodies} \cup not200
        [] frame.fn = Tests[5] /\ frame.label = "link" ->
             {Response(st, html, <<Para>>) : st \in LinkStatuses}
        [] OTHER -> {Response(200, html, <<Para>>)} \cup other

\* The end of a response and the error event.
Settlements(kind, page, frame) ==
  {Resolved(r) : r \in SiteResponses(kind, page, frame)} \cup {Rejected(NetworkErrorMessage)}

\* The link of the large homepage to page k.
PageUrl(siteUrl, k) == AbsoluteUrl("/page" \o ToString(k), Str(siteUrl))

\* The answers to the fetch of a link when page k is the one that is down: 500
\* for that page, and for every other page a status that is no error.
DownSettlements(siteUrl, url, k) ==
  LET html == "text/html; charset=utf-8"
  IN  IF url = PageUrl(siteUrl, k)
      THEN {Resolved(Response(500, html, <<Para>>))}
      ELSE {Resolved(Response(st, html, <<Para>>)) : st \in {200, 302}}

\* The requests of one run that may be answered badly.
FaultBudget(kind) == IF kind \in {"large", "mixed"} THEN MaxLargeFaults ELSE MaxFaults

\* A settlement is a fault when it makes the awaiting probe throw (e is the
\* effect the probe runs to) or, in the link loop, count the link it answers for
\* as broken.
Faulty(siteUrl, frame, aw, e) ==
  IF frame.label = "link"
  THEN TestFn(siteUrl, [frame EXCEPT !.links = <<frame.links[frame.i]>>, !.i = 1,
                                     !.brokenLinks = <<>>], aw).op = "throw"
  ELSE e.op = "throw"

(***************************************************************************)
(* State.                                                                  *)
(***************************************************************************)
VARIABLES
  SITE_URL,      \* process.env.SITE_URL
  TIMEOUT,       \* the parsed TIMEOUT, in ms
  MAX_RETRIES,   \* the parsed MAX_RETRIES
  site,          \* the kind of site the run is against
  down,          \* the page of the large site that answers 500 (0: none is fixed)
  served,        \* the homepage the mixed site serves (empty for the other sites)
  call,          \* a function called on its own, outside of a run: its name, its
                 \* arguments and, once it has returned or thrown, its result
  now,           \* Date.now(), in ms since the process started
  testResults,   \* the report accumulator
  pc,            \* where runTests is
  idx,           \* the index in tests of the test runTests is at
  exec,          \* the frame of the running executeTest
  frame,         \* the frame of the running probe
  request,       \* the request the probe awaits: its URL, whether data of the response
                 \* has arrived, and whether its socket carries no data now
  inFlight,      \* the number of requests sent and not yet ended or destroyed
  timer,         \* the pending backoff sleep, in ms (0: none)
  file,          \* /tmp/smoke-test-results.json
  fileWrites,    \* the number of times the file was written
  outputs,       \* what was appended to GITHUB_OUTPUT
  exitCode,      \* the exit status, once pc = "exited"
  fatal,         \* the catch handler of runTests() ran
  started,       \* names of the tests executeTest was called for, in call order
  calls,         \* invocations of testFn by the running executeTest
  waits,         \* the backoff sleeps of the running executeTest, in ms
  okAt,          \* the invocation of testFn that returned normally (0: none)
  lastThrown,    \* the error of the latest throw of testFn in this executeTest
  sameThrows,    \* every throw of testFn in this executeTest had the same message
  anyThrow,      \* some probe threw during this run
  attemptStart,  \* the time of the latest invocation of testFn
  asked,         \* the URLs makeRequest was called with since that invocation
  fetched,       \* the URLs of the requests sent since that invocation
  answer,        \* how the latest of these requests ended, as Seen
  faults,        \* the requests of this run answered badly so far
  tally,         \* the invocations of testFn and the requests sent in this run so
                 \* far, in the runs that count them
  late           \* the request that ended last and the events it may still emit,
                 \* in the runs that follow a request after its end

config == <<SITE_URL, TIMEOUT, MAX_RETRIES>>
setting == <<config, site, down, served, call>>
observed == <<started, calls, waits, okAt, lastThrown, sameThrows, anyThrow>>
attempted == <<attemptStart, asked, fetched, answer>>
process == <<file, fileWrites, outputs, exitCode, fatal>>
vars ==
  <<setting, now, testResults, pc, idx, exec, frame, request, inFlight, timer, process,
    observed, attempted, faults, tally, late>>

NoFrame == [fn |-> "", label |-> "", i |-> 0, links |-> <<>>, brokenLinks |-> <<>>]
NoRequest == [url |-> "", streaming |-> FALSE, idle |-> TRUE]
Pending == [state |-> "pending"]
Idle ==
  [testName |-> "", startTime |-> 0, attempt |-> 0, lastError |-> Null, at |-> "idle",
   ret |-> Pending]
NoFile == [written |-> FALSE]
NoAnswer == [none |-> TRUE]
NoCall == [fn |-> ""]
NoTally == [counting |-> FALSE]
NoLate == [following |-> FALSE]

\* The state of the process when runTests is called.
Loaded ==
  /\ SITE_URL \in SiteUrlInputs
  /\ TIMEOUT \in {ConfigTimeout(v) : v \in TimeoutInputs}
  /\ MAX_RETRIES \in {ConfigMaxRetries(v) : v \in MaxRetriesInputs}
  /\ now = 0
  /\ testResults = [summary |-> [total |-> 0, passed |-> 0, failed |-> 0, duration |-> 0],
                    tests |-> <<>>]
  /\ pc = "start"
  /\ idx = 0
  /\ exec = Idle
  /\ frame = NoFrame
  /\ request = NoRequest
  /\ inFlight = 0
  /\ timer = 0
  /\ file = NoFile
  /\ fileWrites = 0
  /\ outputs = <<>>
  /\ exitCode = 0
  /\ fatal = FALSE
  /\ started = <<>>
  /\ calls = 0
  /\ waits = <<>>
  /\ okAt = 0
  /\ lastThrown = Null
  /\ sameThrows = TRUE
  /\ anyThrow = FALSE
  /\ attemptStart = 0
  /\ asked = <<>>
  /\ fetched = <<>>
  /\ answer = NoAnswer
  /\ faults = 0

Init ==
  /\ Loaded /\ site = "small" /\ down = 0 /\ call = NoCall
  /\ served = <<>> /\ tally = NoTally /\ late = NoLate

\* One more invocation of testFn or n more requests, where they are counted.
Tallied(t, invocations, n) ==
  IF t.counting
  THEN [t EXCEPT !.attempts = @ + invocations, !.requests = @ + n]
  ELSE t

(***************************************************************************)
(* executeTest(testName, testFn, retries = MAX_RETRIES)                    *)
(***************************************************************************)
\* A loop that makes one pass too many.
LoopCond_OnePassMore(attempt, retries) == ~retries.nan /\ attempt <= retries.n + 1

\* attempt <= retries
LoopCond(attempt, retries) == ~retries.nan /\ attempt <= retries.n

\* A backoff that grows linearly instead of doubling.
BackoffMs_Linear(attempt) == attempt * 2000

\* A backoff that starts at one second: 2^(attempt - 1) seconds.
BackoffMs_FromOneSecond(attempt) == (2 ^ (attempt - 1)) * 1000

\* Math.pow(2, attempt) * 1000
BackoffMs(attempt) == (2 ^ attempt) * 1000

\* A passed result that reports the zero-based loop counter.
PassedResult_ZeroBased(testName, attempt) ==
  [name |-> testName, status |-> "passed", attempts |-> attempt]

PassedResult(testName, attempt) ==
  [name |-> testName, status |-> "passed", attempts |-> attempt + 1]

\* A failed result that is built without a last error, its error left undefined.
FailedResult_ToleratesNull(testName, retries, lastError) ==
  Resolved([name |-> testName, status |-> "failed", attempts |-> retries.n + 1,
            error |-> IF lastError = Null THEN "undefined" ELSE lastError.message])

\* lastError.message of null throws a TypeError.
FailedResult(testName, retries, lastError) ==
  IF lastError = Null
  THEN Rejected("Cannot read properties of null (reading 'message')")
  ELSE Resolved([name |-> testName, status |-> "failed", attempts |-> retries.n + 1,
                 error |-> lastError.message])

\* A passed result that carries the error of the attempt before it.
OnReturn_KeepsError(ex) ==
  [ex EXCEPT !.at = "done",
             !.ret = Resolved(IF ex.lastError = Null
                              THEN [name |-> ex.testName, status |-> "passed",
                                    attempts |-> ex.attempt + 1]
                              ELSE [name |-> ex.testName, status |-> "passed",
                                    attempts |-> ex.attempt + 1,
                                    error |-> ex.lastError.message])]

\* return { ... status: 'passed' ... }
OnReturn(ex) ==
  [ex EXCEPT !.at = "done", !.ret = Resolved(PassedResult(ex.testName, ex.attempt))]

\* A catch block that keeps the first error.
OnThrow_KeepsFirst(ex, error) ==
  [ex EXCEPT !.lastError = IF @ = Null THEN error ELSE @, !.attempt = @ + 1, !.at = "loop"]

\* A catch block that rethrows the error of the last attempt.
OnThrow_RethrowsLast(ex, error) ==
  IF ex.attempt >= MAX_RETRIES.n
  THEN [ex EXCEPT !.lastError = error, !.at = "done", !.ret = Rejected(error.message)]
  ELSE [ex EXCEPT !.lastError = error, !.attempt = @ + 1, !.at = "loop"]

\* catch (error) { lastError = error; ... } and attempt++
OnThrow(ex, error) ==
  [ex EXCEPT !.lastError = error, !.attempt = @ + 1, !.at = "loop"]

\* A duration measured from the start of the latest attempt.
WithDuration_LatestAttempt(ret, d) ==
  IF ~ret.ok THEN ret
  ELSE LET r == ret.value
           latest == d - (attemptStart - exec.startTime)
       IN  Resolved(IF "error" \in DOMAIN r
                    THEN [name |-> r.name, status |-> r.status, duration |-> latest,
                          attempts |-> r.attempts, error |-> r.error]
                    ELSE [name |-> r.name, status |-> r.status, duration |-> latest,
                          attempts |-> r.attempts])

\* const duration = Date.now() - startTime, set in the result executeTest returns.
WithDuration(ret, d) ==
  IF ~ret.ok THEN ret
  ELSE LET r == ret.value
       IN  Resolved(IF "error" \in DOMAIN r
                    THEN [name |-> r.name, status |-> r.status, duration |-> d,
                          attempts |-> r.attempts, error |-> r.error]
                    ELSE [name |-> r.name, status |-> r.status, duration |-> d,
                          attempts |-> r.attempts])

\* The request a probe sends when it stops at an await: req.end().
Sent(e) == IF e.op = "await" THEN <<e.url>> ELSE <<>>

\* The probe ran to its next await, its return or its throw; n is the number of
\* this invocation of testFn, open the number of requests still open and t the
\* time.
Continue(e, n, open, t) ==
  CASE e.op = "await" ->
         /\ request' = [url |-> e.url, streaming |-> FALSE, idle |-> TRUE]
         /\ inFlight' = open + 1
         /\ frame' = e.frame
         /\ exec' = [exec EXCEPT !.at = "testFn"]
         /\ UNCHANGED <<okAt, lastThrown, sameThrows, anyThrow>>
    [] e.op = "return" ->
         /\ request' = NoRequest
         /\ inFlight' = open
         /\ frame' = NoFrame
         /\ exec' = [OnReturn(exec) EXCEPT !.ret = WithDuration(@, t - exec.startTime)]
         /\ okAt' = n
         /\ UNCHANGED <<lastThrown, sameThrows, anyThrow>>
    [] e.op = "throw" ->
         /\ request' = NoRequest
         /\ inFlight' = open
         /\ frame' = NoFrame
         /\ exec' = OnThrow(exec, Err(e.message))
         /\ lastThrown' = Err(e.message)
         /\ sameThrows' = (sameThrows /\ lastThrown \in {Null, Err(e.message)})
         /\ anyThrow' = TRUE
         /\ UNCHANGED okAt

\* A retry of the link probe that goes on with the links alone, the homepage
\* not being fetched again.
CallTestFn_LinksOnly(t) ==
  LET again == calls > 0 /\ exec.testName = Tests[5] /\ UrlParses(Str(SITE_URL))
      e == BrokenLinksNext([Frame(exec.testName) EXCEPT
                              !.label = "link",
                              !.links = LinksToCheck(extractLinks(LargePage, Str(SITE_URL)).links)])
      r == IF again THEN [effect |-> e, asked |-> <<e.url>>]
           ELSE RunFn(SITE_URL, Frame(exec.testName), Null)
  IN  /\ calls' = calls + 1
      /\ attemptStart' = t
      /\ asked' = r.asked
      /\ fetched' = Sent(r.effect)
      /\ answer' = NoAnswer
      /\ tally' = Tallied(tally, 1, Len(Sent(r.effect)))
      /\ Continue(r.effect, calls + 1, inFlight, t)

\* await testFn(), at time t
CallTestFn(t) ==
  LET r == RunFn(SITE_URL, Frame(exec.testName), Null)
  IN  /\ calls' = calls + 1
      /\ attemptStart' = t
      /\ asked' = r.asked
      /\ fetched' = Sent(r.effect)
      /\ answer' = NoAnswer
      /\ tally' = Tallied(tally, 1, Len(Sent(r.effect)))
      /\ Continue(r.effect, calls + 1, inFlight, t)

\* The first pass of the for loop: no backoff, testFn is called.
ExecuteTestFirstAttempt ==
  /\ UNCHANGED <<faults, late>>
  /\ exec.at = "loop"
  /\ exec.attempt = 0
  /\ LoopCond(exec.attempt, MAX_RETRIES)
  /\ CallTestFn(now)
  /\ UNCHANGED <<setting, now, testResults, pc, idx, timer, process, started, waits>>

\* A later pass of the for loop: await sleep(backoffMs).
ExecuteTestBackoff ==
  /\ UNCHANGED <<faults, tally, late>>
  /\ exec.at = "loop"
  /\ exec.attempt > 0
  /\ LoopCond(exec.attempt, MAX_RETRIES)
  /\ timer' = BackoffMs(exec.attempt)
  /\ waits' = Append(waits, BackoffMs(exec.attempt))
  /\ exec' = [exec EXCEPT !.at = "sleep"]
  /\ UNCHANGED <<setting, now, testResults, pc, idx, frame, request, inFlight, process,
                 started, calls, okAt, lastThrown, sameThrows, anyThrow, attempted>>

\* The timer of sleep fires, timer ms after it was set: testFn is called.
SleepResolves ==
  /\ UNCHANGED <<faults, late>>
  /\ exec.at = "sleep"
  /\ timer' = 0
  /\ now' = now + timer
  /\ CallTestFn(now + timer)
  /\ UNCHANGED <<setting, testResults, pc, idx, process, started, waits>>

\* A timeout handler that rejects without destroying the request.
Released_TimeoutKeepsOpen(event, n) == IF event = "timeout" THEN n ELSE n - 1

\* The requests open after an event of the awaited request: after 'end' the
\* request is complete, after 'error' it has failed, and the handler of
\* 'timeout' destroys it.
Released(event, n) == n - 1

\* What is kept of a settled value for the properties: the body only as empty or not.
Seen(aw) ==
  IF aw.ok
  THEN [ok |-> TRUE, statusCode |-> aw.value.statusCode, headers |-> aw.value.headers,
        empty |-> Len(aw.value.body) = 0]
  ELSE aw

\* The probe resumed with the settled value aw: the result of RunFn, whether aw
\* is a fault, and what is seen of aw.
Resumption(siteUrl, fr, aw) ==
  LET r == RunFn(siteUrl, fr, aw)
  IN  <<r, Faulty(siteUrl, fr, aw, r.effect), Seen(aw)>>

\* The promise of one makeRequest call.  resolve and reject settle it when it is
\* pending and do nothing when it is settled.
PendingPromise == [state |-> "pending"]

\* A promise that takes the value of the latest resolve or reject.
Settle_LastWins(promise, v) == [state |-> "settled", value |-> v]

Settle(promise, v) ==
  IF promise.state = "pending" THEN [state |-> "settled", value |-> v] ELSE promise

\* The events the handlers of makeRequest listen to.
RequestEvents == {"end", "error", "timeout"}

\* No request has ended yet, in a run that follows its requests after their end.
NoneEnded ==
  [following |-> TRUE, url |-> "", promise |-> PendingPromise, seen |-> NoAnswer,
   events |-> {}, followed |-> 0]

\* Whether the request that ends now is one that emits events after its end.
Follows(l) ==
  IF l.following /\ l.followed < MaxFollowed THEN BOOLEAN ELSE {FALSE}

\* The request for url has ended by the event.  When it is followed, its promise
\* is settled with what the probe sees and each of the two other events may
\* still be emitted for it; the request that ended before it is followed no more.
Ended(l, url, event, seen, follow) ==
  IF ~l.following THEN l
  ELSE IF follow
  THEN [following |-> TRUE, url |-> url, promise |-> Settle(PendingPromise, seen),
        seen |-> seen, events |-> RequestEvents \ {event}, followed |-> l.followed + 1]
  ELSE [NoneEnded EXCEPT !.followed = l.followed]

\* What the handler of an event passes to resolve or to reject, as Seen: the
\* response that ended, the error of the socket (the one req.destroy() raises
\* after a timeout) or new Error('Request timeout').
HandlerOutcome(event) ==
  CASE event = "end" ->
         Seen(Resolved(Response(200, "text/html; charset=utf-8", <<Para>>)))
    [] event = "error" -> Rejected("socket hang up")
    [] event = "timeout" -> Rejected(TimeoutMessage)

\* The awaited promise settles on the event, at time t, and the probe runs on as
\* s tells.
Resume(s, event, t) ==
  /\ s[2] => faults < FaultBudget(site)
  /\ faults' = IF s[2] THEN faults + 1 ELSE faults
  /\ now' = t
  /\ answer' = s[3]
  /\ asked' = asked \o s[1].asked
  /\ fetched' = fetched \o Sent(s[1].effect)
  /\ tally' = Tallied(tally, 0, Len(Sent(s[1].effect)))
  /\ \E follow \in Follows(late) : late' = Ended(late, request.url, event, s[3], follow)
  /\ Continue(s[1].effect, calls, Released(event, inFlight), t)
  /\ UNCHANGED <<setting, testResults, pc, idx, timer, process, started, calls, waits,
                 attemptStart>>

\* The mixed site answers the link probe with its homepage.
HomepageServed(aw) ==
  /\ site = "mixed" /\ frame.fn = Tests[5] /\ frame.label = "homepage"
  /\ aw.ok /\ aw.value.statusCode = 200

\* The ways the awaited request may end by an answer of the site.  The fixed
\* answers of the site with a page down, and the homepage of the mixed site,
\* are no faults of the run.
Resumptions ==
  IF down > 0 /\ frame.label = "link"
  THEN {<<RunFn(SITE_URL, frame, aw), FALSE, Seen(aw)>> :
          aw \in DownSettlements(SITE_URL, request.url, down)}
  ELSE {<<RunFn(SITE_URL, frame, aw),
          ~HomepageServed(aw) /\ Faulty(SITE_URL, frame, aw, RunFn(SITE_URL, frame, aw).effect),
          Seen(aw)>> : aw \in Settlements(site, served, frame)}

\* res.on('end') or req.on('error'): the awaited request ends by the answer of the
\* site, at once or, when the response is streamed, after SlowMs.
RequestSettles ==
  /\ exec.at = "testFn"
  /\ request # NoRequest
  /\ \E s \in Resumptions :
       Resume(s, IF s[3].ok THEN "end" ELSE "error",
              now + (IF request.streaming THEN SlowMs ELSE 0))

\* req.on('timeout'): the socket carried no data for TIMEOUT ms.
RequestTimesOut ==
  /\ exec.at = "testFn"
  /\ request # NoRequest
  /\ request.idle
  /\ Resume(Resumption(SITE_URL, frame, Rejected(TimeoutMessage)), "timeout",
            now + (IF request.streaming THEN SlowMs ELSE 0) + TIMEOUT.n)

\* res.on('data'): a chunk of a response the site streams slowly arrives before
\* the socket was idle for TIMEOUT ms, and the idle time of the socket starts anew.
\* A response that is streamed counts as a request answered badly.
ResponseData ==
  /\ exec.at = "testFn"
  /\ request # NoRequest
  /\ request.idle
  /\ ~request.streaming => faults < FaultBudget(site)
  /\ faults' = IF request.streaming THEN faults ELSE faults + 1
  /\ request' = [request EXCEPT !.streaming = TRUE, !.idle = FALSE]
  /\ UNCHANGED <<tally, late>>
  /\ UNCHANGED <<setting, now, testResults, pc, idx, exec, frame, inFlight, timer, process,
                 observed, attempted>>

\* No data follows the chunk for a while, shorter than TIMEOUT so far.
StreamPauses ==
  /\ exec.at = "testFn"
  /\ request # NoRequest
  /\ ~request.idle
  /\ request' = [request EXCEPT !.idle = TRUE]
  /\ UNCHANGED <<setting, now, testResults, pc, idx, exec, frame, inFlight, timer, process,
                 observed, attempted, faults, tally, late>>

\* The for loop ends: the failed result is built.
ExecuteTestExhausted ==
  /\ UNCHANGED <<faults, tally, late>>
  /\ exec.at = "loop"
  /\ ~LoopCond(exec.attempt, MAX_RETRIES)
  /\ exec' = [exec EXCEPT !.at = "done",
                          !.ret = WithDuration(FailedResult(exec.testName, MAX_RETRIES,
                                                            exec.lastError),
                                               now - exec.startTime)]
  /\ UNCHANGED <<setting, now, testResults, pc, idx, frame, request, inFlight, timer,
                 process, observed, attempted>>

(***************************************************************************)
(* runTests()                                                              *)
(***************************************************************************)
\* An executeTest whose attempt counter is shared by all the tests.
CallExecuteTest_SharedCounter(i) ==
  /\ idx' = i
  /\ exec' = [testName |-> Tests[i], startTime |-> now, attempt |-> exec.attempt,
              lastError |-> Null, at |-> "loop", ret |-> Pending]
  /\ started' = Append(started, Tests[i])
  /\ calls' = 0
  /\ waits' = <<>>
  /\ okAt' = 0
  /\ lastThrown' = Null
  /\ sameThrows' = TRUE
  /\ attemptStart' = now
  /\ asked' = <<>>
  /\ fetched' = <<>>
  /\ answer' = NoAnswer

\* const result = await executeTest(test.name, test.fn)
CallExecuteTest(i) ==
  /\ idx' = i
  /\ exec' = [testName |-> Tests[i], startTime |-> now, attempt |-> 0, lastError |-> Null,
              at |-> "loop", ret |-> Pending]
  /\ started' = Append(started, Tests[i])
  /\ calls' = 0
  /\ waits' = <<>>
  /\ okAt' = 0
  /\ lastThrown' = Null
  /\ sameThrows' = TRUE
  /\ attemptStart' = now
  /\ asked' = <<>>
  /\ fetched' = <<>>
  /\ answer' = NoAnswer

\* A runner that forgets to count the failed results.
RecordResult_FailedNotCounted(tr, result) ==
  [summary |->
     [tr.summary EXCEPT !.total = @ + 1,
                        !.passed = IF result.status = "passed" THEN @ + 1 ELSE @],
   tests |-> Append(tr.tests, result)]

\* A runner that, with the new result, marks the results before it as passed.
RecordResult_RewritesEarlier(tr, result) ==
  [summary |->
     [tr.summary EXCEPT !.total = @ + 1,
                        !.passed = IF result.status = "passed" THEN @ + 1 ELSE @,
                        !.failed = IF result.status = "passed" THEN @ ELSE @ + 1],
   tests |-> Append([i \in DOMAIN tr.tests |-> [tr.tests[i] EXCEPT !.status = "passed"]],
                    result)]

\* testResults.tests.push(result); summary.total++; summary.passed++ or failed++
RecordResult(tr, result) ==
  [summary |->
     [tr.summary EXCEPT !.total = @ + 1,
                        !.passed = IF result.status = "passed" THEN @ + 1 ELSE @,
                        !.failed = IF result.status = "passed" THEN @ ELSE @ + 1],
   tests |-> Append(tr.tests, result)]

\* A loop that leaves the tests array one test early.
HasNextTest_StopsEarly(i) == i < Len(Tests) - 1

\* for (const test of tests): there is a test after the i-th.
HasNextTest(i) == i < Len(Tests)

\* const overallStartTime = Date.now(), taken in the step that starts the process.
overallStartTime == 0

\* testResults.summary.duration = Date.now() - overallStartTime
Finalize(tr, t) == [tr EXCEPT !.summary.duration = t - overallStartTime]

RunTestsStart ==
  /\ UNCHANGED <<faults, tally, late>>
  /\ pc = "start"
  /\ pc' = "awaitExecuteTest"
  /\ CallExecuteTest(1)
  /\ UNCHANGED <<setting, now, testResults, frame, request, inFlight, timer, process,
                 anyThrow>>

RunTestsRecord ==
  /\ UNCHANGED <<faults, tally, late>>
  /\ pc = "awaitExecuteTest"
  /\ exec.at = "done"
  /\ exec.ret.ok
  /\ IF HasNextTest(idx)
     THEN /\ testResults' = RecordResult(testResults, exec.ret.value)
          /\ CallExecuteTest(idx + 1)
          /\ pc' = pc
     ELSE /\ testResults' = Finalize(RecordResult(testResults, exec.ret.value), now)
          /\ exec' = Idle
          /\ pc' = "writeReport"
          /\ calls' = 0
          /\ waits' = <<>>
          /\ okAt' = 0
          /\ lastThrown' = Null
          /\ sameThrows' = TRUE
          /\ attemptStart' = 0
          /\ asked' = <<>>
          /\ fetched' = <<>>
          /\ answer' = NoAnswer
          /\ UNCHANGED <<idx, started>>
  /\ UNCHANGED <<setting, now, frame, request, inFlight, timer, process, anyThrow>>

\* A handler that exits as the end of runTests does: with 0 when no probe failed.
FatalHandler_ExitsBySummary ==
  /\ fatal' = TRUE
  /\ exitCode' = IF testResults.summary.failed = 0 THEN 0 ELSE 1
  /\ pc' = "exited"

\* runTests().catch: console.error('Fatal error ...'); process.exit(1)
FatalHandler ==
  /\ fatal' = TRUE
  /\ exitCode' = 1
  /\ pc' = "exited"

\* executeTest rejected: runTests rejects.
RunTestsRejects ==
  /\ UNCHANGED <<faults, tally, late>>
  /\ pc = "awaitExecuteTest"
  /\ exec.at = "done"
  /\ ~exec.ret.ok
  /\ FatalHandler
  /\ exec' = Idle
  /\ UNCHANGED <<setting, now, testResults, idx, frame, request, inFlight, timer, file,
                 fileWrites, outputs, observed, attempted>>

\* fs.writeFileSync('/tmp/smoke-test-results.json', ...), which may throw.
WriteReport ==
  /\ UNCHANGED <<faults, tally, late>>
  /\ pc = "writeReport"
  /\ \E writes \in BOOLEAN :
       IF writes
       THEN /\ file' = [written |-> TRUE, content |-> testResults]
            /\ fileWrites' = fileWrites + 1
            /\ pc' = "setOutputs"
            /\ UNCHANGED <<exitCode, fatal>>
       ELSE /\ FatalHandler
            /\ UNCHANGED <<file, fileWrites>>
  /\ UNCHANGED <<setting, now, testResults, idx, exec, frame, request, inFlight, timer,
                 outputs, observed, attempted>>

\* Output lines whose passed flag tells whether some probe passed.
OutputLines_PassedIfAny(tr) ==
  << <<"results", tr>>,
     <<"passed", IF tr.summary.passed > 0 THEN "true" ELSE "false">>,
     <<"total", ToString(tr.summary.total)>>,
     <<"passed-count", ToString(tr.summary.passed)>>,
     <<"failed-count", ToString(tr.summary.failed)>> >>

\* The lines name=value appended to GITHUB_OUTPUT; the value of results is the
\* report, which JSON.stringify renders without loss.
OutputLines(tr) ==
  << <<"results", tr>>,
     <<"passed", IF tr.summary.failed = 0 THEN "true" ELSE "false">>,
     <<"total", ToString(tr.summary.total)>>,
     <<"passed-count", ToString(tr.summary.passed)>>,
     <<"failed-count", ToString(tr.summary.failed)>> >>

\* if (process.env.GITHUB_OUTPUT) fs.appendFileSync(...), which may throw.
SetOutputs ==
  /\ UNCHANGED <<faults, tally, late>>
  /\ pc = "setOutputs"
  /\ \E githubOutput \in BOOLEAN, appends \in BOOLEAN :
       IF githubOutput /\ ~appends
       THEN /\ FatalHandler
            /\ UNCHANGED outputs
       ELSE /\ outputs' = IF githubOutput THEN OutputLines(testResults) ELSE outputs
            /\ pc' = "exitCheck"
            /\ UNCHANGED <<exitCode, fatal>>
  /\ UNCHANGED <<setting, now, testResults, idx, exec, frame, request, inFlight, timer,
                 file, fileWrites, observed, attempted>>

\* An exit check that tolerates one failed probe.
ExitStatus_ToleratesOne(tr) == IF tr.summary.failed > 1 THEN 1 ELSE 0

\* if (testResults.summary.failed > 0) process.exit(1); else the process ends with 0.
ExitStatus(tr) == IF tr.summary.failed > 0 THEN 1 ELSE 0

Exit ==
  /\ UNCHANGED <<faults, tally, late>>
  /\ pc = "exitCheck"
  /\ exitCode' = ExitStatus(testResults)
  /\ pc' = "exited"
  /\ UNCHANGED <<setting, now, testResults, idx, exec, frame, request, inFlight, timer,
                 file, fileWrites, outputs, fatal, observed, attempted>>

Next ==
  \/ RunTestsStart
  \/ ExecuteTestFirstAttempt
  \/ ExecuteTestBackoff
  \/ SleepResolves
  \/ RequestSettles
  \/ RequestTimesOut
  \/ ExecuteTestExhausted
  \/ RunTestsRecord
  \/ RunTestsRejects
  \/ WriteReport
  \/ SetOutputs
  \/ Exit

Spec == Init /\ [][Next]_vars

\* The run against the large site, with at most MaxLargeRetries retries.
InitLarge ==
  /\ Loaded /\ site = "large" /\ down = 0 /\ call = NoCall
  /\ served = <<>> /\ tally = NoTally /\ late = NoLate
  /\ MAX_RETRIES.n <= MaxLargeRetries

LargeSpec == InitLarge /\ [][Next]_vars

\* The run against the large site with one page down: the first or the last
\* link of the homepage, or one of the two links at the limit of the link probe.
DownPages == {1, LinkLimit, LinkLimit + 1, PageLinks}

InitDown ==
  /\ Loaded /\ site = "large" /\ down \in DownPages /\ call = NoCall
  /\ served = <<>> /\ tally = NoTally /\ late = NoLate
  /\ MAX_RETRIES.n <= MaxLargeRetries

DownSpec == InitDown /\ [][Next]_vars

\* The run against a site that may stream its responses, with at most
\* MaxSlowRetries retries.
InitSlow == Init /\ MAX_RETRIES.n <= MaxSlowRetries

NextSlow ==
  \/ Next
  \/ ResponseData
  \/ StreamPauses

\* The steps the event loop takes by itself: the code that is ready to run runs,
\* and a timer that was set fires.
Runs ==
  \/ RunTestsStart
  \/ ExecuteTestFirstAttempt
  \/ ExecuteTestBackoff
  \/ SleepResolves
  \/ ExecuteTestExhausted
  \/ RunTestsRecord
  \/ RunTestsRejects
  \/ WriteReport
  \/ SetOutputs
  \/ Exit

\* Time does not stop for a request that is open: its socket gets the next
\* chunk, pauses, gets the end of the response or an error, or has carried no
\* data for TIMEOUT ms.  Nothing makes the site end a response it streams.
SocketEvent ==
  \/ RequestSettles
  \/ RequestTimesOut
  \/ ResponseData
  \/ StreamPauses

SlowSpec == InitSlow /\ [][NextSlow]_vars /\ WF_vars(Runs) /\ WF_vars(SocketEvent)

\* The run against the large site whose invocations of testFn and requests are
\* counted.  The code that is ready to run runs; nothing makes a request end.
InitCount ==
  /\ Loaded /\ site = "large" /\ down = 0 /\ call = NoCall
  /\ served = <<>>
  /\ tally = [counting |-> TRUE, attempts |-> 0, requests |-> 0] /\ late = NoLate
  /\ MAX_RETRIES.n <= MaxLargeRetries

CountSpec == InitCount /\ [][Next]_vars /\ WF_vars(Runs)

\* An event of the request that ended last is emitted after the end of that
\* request, while the program goes on: its handler calls resolve or reject of
\* the promise of that request (and, for 'timeout', destroys the request, which
\* is closed already).
LateEvent ==
  /\ late.following
  /\ pc # "exited"
  /\ \E event \in late.events :
       late' = [late EXCEPT !.promise = Settle(@, HandlerOutcome(event)),
                            !.events = @ \ {event}]
  /\ UNCHANGED <<setting, now, testResults, pc, idx, exec, frame, request, inFlight, timer,
                 process, observed, attempted, faults, tally>>

\* The run against the plain site whose requests are followed after their end,
\* with at most MaxLateRetries retries.
InitLate ==
  /\ Loaded /\ site = "plain" /\ down = 0 /\ call = NoCall
  /\ served = <<>> /\ tally = NoTally /\ late = NoneEnded
  /\ MAX_RETRIES.n <= MaxLateRetries

NextLate ==
  \/ Next
  \/ LateEvent

LateSpec == InitLate /\ [][NextLate]_vars

\* The run against the mixed site, with at most MaxLateRetries retries.
InitMixed ==
  /\ Loaded /\ site = "mixed" /\ down = 0 /\ call = NoCall
  /\ served \in MixedPages /\ tally = NoTally /\ late = NoLate
  /\ MAX_RETRIES.n <= MaxLateRetries

MixedSpec == InitMixed /\ [][Next]_vars

\* The run against the mixed site when its homepage has the href with no host.
InitNoHost ==
  /\ Loaded /\ site = "mixed" /\ down = 0 /\ call = NoCall
  /\ served = NoHostHrefPage /\ tally = NoTally /\ late = NoLate
  /\ MAX_RETRIES.n <= MaxLateRetries

NoHostSpec == InitNoHost /\ [][Next]_vars

(***************************************************************************)
(* Functions called on their own.                                          *)
(***************************************************************************)
\* Everything but the call: the process as loaded, where no run takes place.
program ==
  <<config, site, down, served, now, testResults, pc, idx, exec, frame, request, inFlight, timer,
    process, observed, attempted, faults, tally, late>>

NoRun ==
  /\ Loaded /\ site = "small" /\ down = 0
  /\ served = <<>> /\ tally = NoTally /\ late = NoLate
  /\ SITE_URL = Unset /\ MAX_RETRIES = ConfigMaxRetries(Unset)

\* The hrefs of the pages extractLinks is called with: fragments, script, mail
\* and phone hrefs, root-relative, relative and absolute links of the same and
\* of another host, a protocol-relative link and an absolute URL with no host.
ExtractHrefs ==
  HrefSamples \cup
    {"#", "javascript:void(0)", "JavaScript:void(0)", "mailto:dev@example.com",
     "tel:+15550100", "//other.org/x"}

\* The pages: up to MaxElements anchors and paragraphs.
ExtractHtmls ==
  LET elements == {Anchor(h) : h \in ExtractHrefs} \cup {Para}
  IN  UNION {[1..k -> elements] : k \in 0..MaxElements}

\* The base URLs: with and without a port and a path, and one that does not parse.
ExtractBaseUrls == {"https://example.com", "http://example.com:8080/docs/", "example.com"}

InitExtract ==
  /\ NoRun
  /\ call \in {[fn |-> "extractLinks", at |-> "called", html |-> h, baseUrl |-> b] :
                 h \in ExtractHtmls, b \in ExtractBaseUrls}

\* extractLinks(html, baseUrl) returns its links or throws.
ExtractLinksCompletes ==
  /\ call.fn = "extractLinks" /\ call.at = "called"
  /\ LET r == extractLinks(call.html, call.baseUrl)
     IN  call' = IF r.threw
                 THEN [fn |-> call.fn, at |-> "threw", html |-> call.html,
                       baseUrl |-> call.baseUrl]
                 ELSE [fn |-> call.fn, at |-> "returned", html |-> call.html,
                       baseUrl |-> call.baseUrl, links |-> r.links]
  /\ UNCHANGED program

ExtractSpec == InitExtract /\ [][ExtractLinksCompletes]_vars

(***************************************************************************)
(* tools/ci/calculate-version.js                                           *)
(***************************************************************************)
\* null, where a string may stand.
NullString == "<null>"

\* \w
WordChar(c) ==
  LET w == "abcdefghijklmnopqrstuvwxyzABCDEFGHIJKLMNOPQRSTUVWXYZ0123456789_"
  IN  \E i \in 1..Len(w) : SubSeq(w, i, i) = c

\* message.split('\n')[0]
FirstLine(message) ==
  LET breaks == {i \in 1..Len(message) : SubSeq(message, i, i) = "\n"}
  IN  IF breaks = {} THEN message
      ELSE SubSeq(message, 1, (CHOOSE i \in breaks : \A j \in breaks : i <= j) - 1)

\* The length of the longest prefix of s made of \w characters.
WordPrefixLen(s) ==
  CHOOSE k \in 0..Len(s) :
    /\ \A i \in 1..k : WordChar(SubSeq(s, i, i))
    /\ k = Len(s) \/ ~WordChar(SubSeq(s, k + 1, k + 1))

\* !?: at the start of r
BangColon(r) == StartsWith(r, ":") \/ StartsWith(r, "!:")

\* firstLine.match(/^(\w+)(\(.+?\))?!?:/): the captured type, or null.
TypeMatch(firstLine) ==
  LET n == WordPrefixLen(firstLine)
      rest == SubSeq(firstLine, n + 1, Len(firstLine))
      scoped ==
        /\ StartsWith(rest, "(")
        /\ \E j \in 3..Len(rest) :
             SubSeq(rest, j, j) = ")" /\ BangColon(SubSeq(rest, j + 1, Len(rest)))
  IN  IF n > 0 /\ (BangColon(rest) \/ scoped) THEN SubSeq(firstLine, 1, n) ELSE NullString

parseCommit(message) ==
  LET firstLine == FirstLine(message)
      hasBreakingInFirstLine == Includes(firstLine, "!")
      hasBreakingInFooter == Includes(message, "BREAKING CHANGE:")
  IN  [type |-> TypeMatch(firstLine),
       breaking |-> hasBreakingInFirstLine \/ hasBreakingInFooter,
       message |-> firstLine]

calculateVersionBump(commits) ==
  LET parsed == [i \in DOMAIN commits |-> parseCommit(commits[i])]
      hasBreaking == \E i \in DOMAIN parsed : parsed[i].breaking
      hasFeat == \E i \in DOMAIN parsed : parsed[i].type = "feat"
      hasFix == \E i \in DOMAIN parsed : parsed[i].type \in {"fix", "perf", "refactor"}
  IN  IF hasBreaking THEN "major"
      ELSE IF hasFeat THEN "minor"
      ELSE IF hasFix THEN "patch"
      ELSE NullString

\* The commit messages calculateVersionBump is called with.
CommitSamples ==
  {"feat: add search", "feat(ui)!: new layout", "fix(api): handle null",
   "fix: stop the crash!", "perf: faster scan", "refactor: split runner",
   "docs: update readme", "chore: drop node 16\n\nBREAKING CHANGE: needs node 18",
   "Merge branch main"}

CommitLists == UNION {[1..k -> CommitSamples] : k \in 0..MaxCommits}

InitVersion ==
  /\ NoRun
  /\ call \in {[fn |-> "calculateVersionBump", at |-> "called", commits |-> c] :
                 c \in CommitLists}

CalculateVersionBumpReturns ==
  /\ call.fn = "calculateVersionBump" /\ call.at = "called"
  /\ call' = [fn |-> call.fn, at |-> "returned", commits |-> call.commits,
              bump |-> calculateVersionBump(call.commits)]
  /\ UNCHANGED program

VersionSpec == InitVersion /\ [][CalculateVersionBumpReturns]_vars

(***************************************************************************)
(* The changelog generator (src/unnamed/part_000), called with the commit  *)
(* messages the version calculator is called with.                         *)
(***************************************************************************)
\* \s, among the characters of a commit message
WhiteSpace(c) == c = " " \/ c = "\t" \/ c = "\r" \/ c = "\n"

\* s.trimStart() and s.trim()
RECURSIVE TrimStart(_)
TrimStart(s) ==
  IF s # "" /\ WhiteSpace(SubSeq(s, 1, 1)) THEN TrimStart(SubSeq(s, 2, Len(s))) ELSE s

RECURSIVE TrimEnd(_)
TrimEnd(s) ==
  IF s # "" /\ WhiteSpace(SubSeq(s, Len(s), Len(s))) THEN TrimEnd(SubSeq(s, 1, Len(s) - 1)) ELSE s

Trim(s) == TrimEnd(TrimStart(s))

\* message.split('\n')
RECURSIVE SplitLines(_)
SplitLines(message) ==
  LET breaks == {i \in 1..Len(message) : SubSeq(message, i, i) = "\n"}
      first == CHOOSE i \in breaks : \A j \in breaks : i <= j
  IN  IF breaks = {} THEN <<message>>
      ELSE <<SubSeq(message, 1, first - 1)>> \o SplitLines(SubSeq(message, first + 1, Len(message)))

\* .filter((l) => l.trim())
RECURSIVE NonBlank(_)
NonBlank(lines) ==
  IF lines = <<>> THEN <<>>
  ELSE IF Trim(Head(lines)) = "" THEN NonBlank(Tail(lines))
       ELSE <<Head(lines)>> \o NonBlank(Tail(lines))

\* firstLine.match(/^(\w+)(?:\(([^)]+)\))?(!)?:\s*(.+)$/): whether it matches,
\* and the captures type, scope, breaking and subject, where undefined is null.
HeaderMatch(firstLine) ==
  LET n == WordPrefixLen(firstLine)
      rest == SubSeq(firstLine, n + 1, Len(firstLine))
      closes == {j \in 1..Len(rest) : SubSeq(rest, j, j) = ")"}
      close == CHOOSE j \in closes : \A k \in closes : j <= k
      scoped == StartsWith(rest, "(") /\ closes # {} /\ close >= 3
      tail == IF scoped THEN SubSeq(rest, close + 1, Len(rest)) ELSE rest
      bang == StartsWith(tail, "!")
      colon == IF bang THEN SubSeq(tail, 2, Len(tail)) ELSE tail
      after == SubSeq(colon, 2, Len(colon))
  IN  IF n > 0 /\ StartsWith(colon, ":") /\ Len(after) >= 1
      THEN [matched |-> TRUE,
            type |-> SubSeq(firstLine, 1, n),
            scope |-> IF scoped THEN SubSeq(rest, 2, close - 1) ELSE NullString,
            breaking |-> bang,
            subject |-> IF TrimStart(after) = "" THEN SubSeq(after, Len(after), Len(after))
                        ELSE TrimStart(after)]
      ELSE [matched |-> FALSE]

\* The description of the first line that starts with BREAKING CHANGE:, or null.
RECURSIVE BreakingDescription(_)
BreakingDescription(lines) ==
  IF lines = <<>> THEN NullString
  ELSE IF StartsWith(Head(lines), "BREAKING CHANGE:")
       THEN Trim(SubSeq(Head(lines), Len("BREAKING CHANGE:") + 1, Len(Head(lines))))
       ELSE BreakingDescription(Tail(lines))

\* !!x of a string that may be null
Truthy(x) == x # NullString /\ x # ""

\* parseCommit of the changelog generator: the parsed commit, null, or the
\* TypeError of undefined.match when the message has no line that is not blank.
ChangelogParseCommit(message) ==
  LET lines == NonBlank(SplitLines(message))
      m == HeaderMatch(lines[1])
      breakingDescription == BreakingDescription(lines)
  IN  IF lines = <<>> THEN [threw |-> TRUE]
      ELSE IF ~m.matched THEN [threw |-> FALSE, null |-> TRUE]
      ELSE [threw |-> FALSE, null |-> FALSE, type |-> m.type, scope |-> m.scope,
            breaking |-> m.breaking \/ Truthy(breakingDescription),
            breakingDescription |-> breakingDescription,
            subject |-> m.subject, message |-> lines[1]]

\* The keys of groups.
GroupNames == {"breaking", "feat", "fix", "perf", "refactor", "docs", "other"}

\* groupCommitsByType(commits)[name] for commit types that are no property of
\* Object.prototype: the breaking commits, and the commits of the type that is
\* the name of a group or, under other, of any other type.
RECURSIVE Group(_, _)
Group(commits, name) ==
  IF commits = <<>> THEN <<>>
  ELSE LET c == Head(commits)
           byFlag == IF name = "breaking" /\ c.breaking THEN <<c>> ELSE <<>>
           byType == IF c.type = name \/ (name = "other" /\ c.type \notin GroupNames)
                     THEN <<c>> ELSE <<>>
       IN  byFlag \o byType \o Group(Tail(commits), name)

\* commit.breakingDescription || commit.subject
Description(c) == IF Truthy(c.breakingDescription) THEN c.breakingDescription ELSE c.subject

RECURSIVE SectionLines(_)
SectionLines(commits) ==
  IF commits = <<>> THEN ""
  ELSE "* " \o (IF Head(commits).scope # NullString
                THEN "**" \o Head(commits).scope \o "**: " ELSE "")
            \o Description(Head(commits)) \o "\n" \o SectionLines(Tail(commits))

formatSection(title, commits) ==
  IF Len(commits) = 0 THEN ""
  ELSE "### " \o title \o "\n\n" \o SectionLines(commits) \o "\n"

RECURSIVE BreakingLines(_)
BreakingLines(commits) ==
  IF commits = <<>> THEN ""
  ELSE "* " \o Description(Head(commits)) \o "\n" \o BreakingLines(Tail(commits))

\* .filter((c) => c !== null)
RECURSIVE NotNull(_)
NotNull(parsed) ==
  IF parsed = <<>> THEN <<>>
  ELSE IF Head(parsed).null THEN NotNull(Tail(parsed))
       ELSE <<Head(parsed)>> \o NotNull(Tail(parsed))

\* generateChangelog(commitMessages, version, date): the markdown, or the
\* TypeError of parseCommit.
generateChangelog(commitMessages, version, date) ==
  LET parsed == [i \in DOMAIN commitMessages |-> ChangelogParseCommit(commitMessages[i])]
      parsedCommits == NotNull(parsed)
      breaking == Group(parsedCommits, "breaking")
  IN  IF \E i \in DOMAIN parsed : parsed[i].threw THEN [threw |-> TRUE]
      ELSE IF Len(parsedCommits) = 0 THEN [threw |-> FALSE, text |-> ""]
      ELSE [threw |-> FALSE,
            text |->
              "## [" \o version \o "] - " \o date \o "\n\n"
              \o (IF Len(breaking) > 0
                  THEN "### ⚠ BREAKING CHANGES\n\n" \o BreakingLines(breaking) \o "\n"
                  ELSE "")
              \o formatSection("Features", Group(parsedCommits, "feat"))
              \o formatSection("Bug Fixes", Group(parsedCommits, "fix"))
              \o formatSection("Performance Improvements", Group(parsedCommits, "perf"))
              \o formatSection("Code Refactoring", Group(parsedCommits, "refactor"))
              \o formatSection("Documentation", Group(parsedCommits, "docs"))]

\* The commit messages of a release: those of the version calculator and a
\* message with a footer under a first line that is no conventional commit.
ReleaseSamples ==
  CommitSamples \cup {"Drop the legacy API\n\nBREAKING CHANGE: v1 endpoints are gone"}

ReleaseLists == UNION {[1..k -> ReleaseSamples] : k \in 0..MaxCommits}

InitRelease ==
  /\ NoRun
  /\ call \in {[fn |-> "generateChangelog", at |-> "called", commits |-> c,
                 version |-> "1.2.0", date |-> "2026-01-15"] : c \in ReleaseLists}

GenerateChangelogReturns ==
  /\ call.fn = "generateChangelog" /\ call.at = "called"
  /\ call' = [fn |-> "calculateVersionBump", at |-> "called", commits |-> call.commits,
              changelog |-> generateChangelog(call.commits, call.version, call.date)]
  /\ UNCHANGED program

\* calculateVersionBump is called with the messages the changelog was made of.
BumpOfReleaseReturns ==
  /\ call.fn = "calculateVersionBump" /\ call.at = "called"
  /\ call' = [call EXCEPT !.at = "returned"] @@ [bump |-> calculateVersionBump(call.commits)]
  /\ UNCHANGED program

NextRelease == GenerateChangelogReturns \/ BumpOfReleaseReturns

ReleaseSpec == InitRelease /\ [][NextRelease]_vars

(***************************************************************************)
(* tools/ci/create-deployment-record.js                                    *)
(***************************************************************************)
\* !x of a string that may be undefined: undefined and '' are falsy.
Falsy(x) == x = Unset \/ x = ""

\* /^[a-f0-9]{40}$/.test(s)
IsSha(s) ==
  LET hex == "abcdef0123456789"
  IN  /\ Len(s) = 40
      /\ \A i \in 1..Len(s) : \E j \in 1..Len(hex) : SubSeq(hex, j, j) = SubSeq(s, i, i)

\* A validator that does not ask for the deployer.
validateDeploymentData_NoDeployer(data) ==
  LET errors ==
        (IF Falsy(data.environment) THEN <<"environment is required">>
         ELSE IF data.environment \notin {"staging", "production"}
              THEN <<"environment must be \"staging\" or \"production\"">>
              ELSE <<>>)
        \o (IF Falsy(data.commit) THEN <<"commit is required">>
            ELSE IF ~IsSha(data.commit) THEN <<"commit must be a valid 40-character SHA">>
                 ELSE <<>>)
        \o (IF Falsy(data.status) THEN <<"status is required">>
            ELSE IF data.status \notin {"pending", "success", "failed", "rolled_back"}
                 THEN <<"status must be one of: pending, success, failed, rolled_back">>
                 ELSE <<>>)
  IN  [valid |-> Len(errors) = 0, errors |-> errors]

validateDeploymentData(data) ==
  LET errors ==
        (IF Falsy(data.environment) THEN <<"environment is required">>
         ELSE IF data.environment \notin {"staging", "production"}
              THEN <<"environment must be \"staging\" or \"production\"">>
              ELSE <<>>)
        \o (IF Falsy(data.commit) THEN <<"commit is required">>
            ELSE IF ~IsSha(data.commit) THEN <<"commit must be a valid 40-character SHA">>
                 ELSE <<>>)
        \o (IF Falsy(data.deployer) THEN <<"deployer is required">> ELSE <<>>)
        \o (IF Falsy(data.status) THEN <<"status is required">>
            ELSE IF data.status \notin {"pending", "success", "failed", "rolled_back"}
                 THEN <<"status must be one of: pending, success, failed, rolled_back">>
                 ELSE <<>>)
  IN  [valid |-> Len(errors) = 0, errors |-> errors]

\* errors.join(', ')
RECURSIVE JoinComma(_)
JoinComma(s) ==
  IF s = <<>> THEN ""
  ELSE IF Len(s) = 1 THEN s[1]
  ELSE s[1] \o ", " \o JoinComma(Tail(s))

\* x || null
OrNull(x) == IF Falsy(x) THEN NullString ELSE x

\* createDeploymentRecord(data), with the id crypto.randomUUID() gave and the
\* time new Date().toISOString() gave: it throws or returns the record.
createDeploymentRecord(data, uuid, isoNow) ==
  LET validation == validateDeploymentData(data)
  IN  IF ~validation.valid
      THEN [threw |-> TRUE,
            message |-> "Invalid deployment data: " \o JoinComma(validation.errors)]
      ELSE [threw |-> FALSE,
            record |-> [id |-> uuid,
                        environment |-> data.environment,
                        version |-> OrNull(data.version),
                        commit |-> data.commit,
                        timestamp |-> IF Falsy(data.timestamp) THEN isoNow ELSE data.timestamp,
                        deployer |-> data.deployer,
                        status |-> data.status,
                        duration |-> OrNull(data.duration),
                        smoke_tests |-> OrNull(data.smoke_tests),
                        rollback_target |-> OrNull(data.rollback_target)]]

\* The deployment data the two functions are called with: each required field
\* is missing, empty, well-formed or malformed; the optional fields are missing.
ShaSample == "0123456789abcdef0123456789abcdef01234567"
DeploymentData ==
  [environment : {Unset, "", "staging", "production", "dev"},
   commit : {Unset, "", ShaSample, "abc1234", "g123456789abcdef0123456789abcdef01234567"},
   deployer : {Unset, "", "octocat"},
   status : {Unset, "pending", "success", "failed", "rolled_back", "done"},
   version : {Unset}, timestamp : {Unset}, duration : {Unset}, smoke_tests : {Unset},
   rollback_target : {Unset}]

\* What crypto.randomUUID() and new Date().toISOString() may give.
Uuids == {"6f1c2c1e-0000-4000-8000-000000000001", "6f1c2c1e-0000-4000-8000-000000000002"}
IsoTimes == {"2025-01-01T00:00:00.000Z"}

InitDeploy ==
  /\ NoRun
  /\ call \in {[fn |-> f, at |-> "called", data |-> d] :
                 f \in {"validateDeploymentData", "createDeploymentRecord"},
                 d \in DeploymentData}

ValidateDeploymentDataReturns ==
  /\ call.fn = "validateDeploymentData" /\ call.at = "called"
  /\ call' = [fn |-> call.fn, at |-> "returned", data |-> call.data,
              validation |-> validateDeploymentData(call.data)]
  /\ UNCHANGED program

CreateDeploymentRecordCompletes ==
  /\ call.fn = "createDeploymentRecord" /\ call.at = "called"
  /\ \E uuid \in Uuids, isoNow \in IsoTimes :
       LET r == createDeploymentRecord(call.data, uuid, isoNow)
       IN  call' = IF r.threw
                   THEN [fn |-> call.fn, at |-> "threw", data |-> call.data,
                         message |-> r.message]
                   ELSE [fn |-> call.fn, at |-> "returned", data |-> call.data,
                         record |-> r.record]
  /\ UNCHANGED program

NextDeploy ==
  \/ ValidateDeploymentDataReturns
  \/ CreateDeploymentRecordCompletes

DeploySpec == InitDeploy /\ [][NextDeploy]_vars

(***************************************************************************)
(* Properties.                                                             *)
(***************************************************************************)
Results == testResults.tests
Summary == testResults.summary
Exited == pc = "exited"
RetriesValid == ~MAX_RETRIES.nan /\ MAX_RETRIES.n >= 0
\* executeTest has settled and runTests has not yet taken its result.
Settled == exec.at = "done"
FailedResults == {i \in DOMAIN Results : Results[i].status = "failed"}
PassedResults == {i \in DOMAIN Results : Results[i].status = "passed"}

CountsAgree(tr) ==
  /\ tr.summary.total = Len(tr.tests)
  /\ tr.summary.passed + tr.summary.failed = tr.summary.total

\* C1: after every recorded result, and in the report written to the file,
\* summary.total is the number of entries of tests and summary.passed +
\* summary.failed is summary.total.
C1_SummaryCounts ==
  /\ CountsAgree(testResults)
  /\ file.written => CountsAgree(file.content)

\* A finished run with passed and failed probes, whose report is in the file.
C1_Witness ==
  /\ Exited /\ file.written
  /\ Summary.total = 5 /\ Summary.passed >= 1 /\ Summary.failed >= 2

\* C2: a run that runs to the end of runTests exits with 0 exactly when
\* summary.failed is 0; whenever a probe is recorded as failed the exit status
\* is 1, and an exit with 0 has recorded all five probes.
C2_ExitStatus ==
  Exited =>
    /\ ~fatal => (exitCode = 0 <=> Summary.failed = 0)
    /\ FailedResults # {} => exitCode = 1
    /\ exitCode = 0 => Len(Results) = 5 /\ FailedResults = {}

\* A run that ends with status 1 because one probe failed after its retries.
C2_Witness ==
  /\ Exited /\ ~fatal /\ exitCode = 1
  /\ Summary.failed = 1
  /\ \E i \in FailedResults : Results[i].attempts > 1

\* C3: with maxRetries >= 0, when the k-th invocation of the probe is the first
\* to return normally, executeTest settles at once with status passed and
\* attempts = k, k <= maxRetries + 1, and the probe is not invoked again.
C3_PassAtAttemptK ==
  okAt > 0 =>
    /\ RetriesValid
    /\ Settled /\ exec.ret.ok
    /\ exec.ret.value.status = "passed"
    /\ exec.ret.value.attempts = okAt
    /\ calls = okAt
    /\ okAt <= MAX_RETRIES.n + 1

\* The probe failed twice and passed at its third invocation.
C3_Witness ==
  /\ okAt = 3 /\ Settled
  /\ lastThrown # Null

\* C4: with maxRetries >= 0, when no invocation of the probe returns normally,
\* the probe is invoked exactly maxRetries + 1 times and the result is failed
\* with attempts = maxRetries + 1 and the message of the last throw as error;
\* and a failed result comes from no other case.
C4_FailAfterAllAttempts ==
  /\ (Settled /\ okAt = 0 /\ RetriesValid) =>
       /\ exec.ret.ok
       /\ exec.ret.value.status = "failed"
       /\ exec.ret.value.attempts = MAX_RETRIES.n + 1
       /\ calls = MAX_RETRIES.n + 1
       /\ lastThrown # Null
       /\ exec.ret.value.error = lastThrown.message
  /\ (Settled /\ exec.ret.ok /\ exec.ret.value.status = "failed") => okAt = 0

\* Two attempts, the second failing with another message than the first.
C4_Witness ==
  /\ Settled /\ okAt = 0
  /\ MAX_RETRIES.n = 1 /\ calls = 2
  /\ ~sameThrows

\* C5: the wait before retry a is 2^a seconds, there is no wait before the first
\* invocation of the probe, and one wait before each later one.
C5_Backoff ==
  /\ \A a \in DOMAIN waits : waits[a] = (2 ^ a) * 1000
  /\ calls = 0 => waits = <<>>
  /\ exec.at = "testFn" => Len(waits) = calls - 1
  /\ exec.at = "sleep" => Len(waits) = calls /\ timer = waits[calls]
  /\ exec.at # "sleep" => timer = 0

\* The fourth invocation of a probe, after waits of 2, 4 and 8 seconds.
C5_Witness ==
  /\ exec.at = "testFn" /\ calls = 4
  /\ waits = <<2000, 4000, 8000>>

\* C6: every recorded result has 1 <= attempts <= maxRetries + 1.
C6_AttemptsRange ==
  \A i \in DOMAIN Results :
    /\ Results[i].attempts >= 1
    /\ ~MAX_RETRIES.nan
    /\ Results[i].attempts <= MAX_RETRIES.n + 1

\* A report with a result of one attempt and a result that used every attempt.
C6_Witness ==
  /\ MAX_RETRIES.n >= 2
  /\ \E i, j \in DOMAIN Results :
       /\ Results[i].attempts = 1
       /\ Results[j].attempts = MAX_RETRIES.n + 1 /\ Results[j].status = "passed"

\* C7: a recorded result has an error field exactly when its status is failed.
C7_ErrorIffFailed ==
  \A i \in DOMAIN Results :
    ("error" \in DOMAIN Results[i]) <=> (Results[i].status = "failed")

\* A report with a result that passed after failed attempts and a failed result.
C7_Witness ==
  /\ \E i \in PassedResults : Results[i].attempts > 1
  /\ FailedResults # {}

\* C8: executeTest is rejected only when the probe was never invoked; once a
\* probe has thrown, the run still records all five probes, takes the fatal
\* handler only after the five results, and shows a failed probe in
\* summary.failed and in the exit status.
C8_ProbeFailureNeverFaults ==
  /\ (Settled /\ ~exec.ret.ok) => (calls = 0 /\ lastThrown = Null)
  /\ (anyThrow /\ pc # "awaitExecuteTest") => Len(Results) = 5
  /\ (anyThrow /\ Exited) =>
       /\ Summary.failed = Cardinality(FailedResults)
       /\ FailedResults # {} => exitCode = 1

\* A finished run in which probes failed by a network error, by a timeout and by
\* an assertion on the response.
C8_Witness ==
  /\ Exited /\ ~fatal /\ Len(Results) = 5
  /\ \E i, j, k \in FailedResults :
       /\ Results[i].error = NetworkErrorMessage
       /\ Results[j].error = TimeoutMessage
       /\ Results[k].error = "Response body is empty"

\* C9: with SITE_URL missing or not a URL, no probe is invoked, no backoff wait
\* is made, no result is recorded, and the run ends in the fatal handler with a
\* non-zero status.
C9_AbortsBeforeAnyProbe ==
  ~UrlParses(Str(SITE_URL)) =>
    /\ calls = 0 /\ waits = <<>> /\ Results = <<>>
    /\ Exited => (fatal /\ exitCode # 0)

\* C10: executeTest is called for the five probes in the fixed order, for a probe
\* only when the result of the one before it is recorded; the results are
\* recorded in that order; and once a result is recorded the run goes on to
\* record all five, whatever the results are.
C10_ProbeOrder ==
  LET order == << "Homepage loads", "Documentation pages accessible",
                  "Search functionality works", "Assets load correctly",
                  "No broken links on homepage" >>
  IN  /\ Len(started) <= 5 /\ started = SubSeq(order, 1, Len(started))
      /\ Len(Results) <= 5
      /\ \A i \in DOMAIN Results : Results[i].name = order[i]
      /\ Len(started) - Len(Results) \in {0, 1}
      /\ exec.at # "idle" => Len(started) = Len(Results) + 1
      /\ (exec.at = "idle" /\ ~fatal) => Len(started) = Len(Results)
      /\ (Results # <<>> /\ pc # "awaitExecuteTest") => Len(Results) = 5

\* A finished run whose first probe failed and whose last probe passed.
C10_Witness ==
  /\ Exited /\ Len(Results) = 5
  /\ Results[1].status = "failed" /\ Results[5].status = "passed"

\* C11 as stated: the report file is written exactly once in every run, and only
\* after all five probes have produced their final result.
C11_WrittenOnceInEveryRun ==
  /\ Exited => fileWrites = 1
  /\ file.written => Len(file.content.tests) = 5

\* C11: the report file is written at most once per run, and exactly once in a
\* run that ends without the fatal handler; it is written only after all five
\* probes have produced their final result, and what it holds is the complete
\* report: no state of a run exposes a report with a partial set of results.
C11_ReportOnceAfterAll ==
  /\ fileWrites <= 1
  /\ file.written <=> fileWrites = 1
  /\ file.written =>
       /\ Len(file.content.tests) = 5
       /\ file.content = testResults
       /\ \A i \in 1..5 : file.content.tests[i].status \in {"passed", "failed"}
       /\ pc \in {"setOutputs", "exitCheck", "exited"}
  /\ pc \in {"start", "awaitExecuteTest", "writeReport"} => fileWrites = 0
  /\ (Exited /\ ~fatal) => fileWrites = 1

\* A finished run whose report holds a probe that passed and a probe that
\* exhausted its retries.
C11_Witness ==
  /\ Exited /\ ~fatal /\ fileWrites = 1
  /\ \E i, j \in 1..5 :
       /\ file.content.tests[i].status = "passed"
       /\ file.content.tests[j].status = "failed" /\ file.content.tests[j].attempts > 1

\* C12: every probe starts with a fresh attempt counter and no last error, and is
\* given the full budget of maxRetries + 1 invocations: the loop counter of the
\* running executeTest counts the invocations of its own probe only, a probe
\* that never passes is invoked maxRetries + 1 times whatever the probes before
\* it used, and the first retry of every probe waits 2 seconds.
C12_IndependentRetries ==
  /\ exec.at \in {"loop", "sleep"} => exec.attempt = calls
  /\ exec.at = "testFn" => exec.attempt = calls - 1
  /\ (exec.at # "idle" /\ calls = 0) => (exec.attempt = 0 /\ exec.lastError = Null)
  /\ (exec.at # "idle" /\ RetriesValid) => calls <= MAX_RETRIES.n + 1
  /\ (Settled /\ RetriesValid /\ okAt = 0) => calls = MAX_RETRIES.n + 1
  /\ waits # <<>> => waits[1] = 2000
  /\ (exec.at = "sleep" /\ calls = 1) => timer = 2000

\* The third probe waits 2 seconds before its first retry, after the first probe
\* and the second probe each used a retry.
C12_Witness ==
  /\ idx = 3 /\ exec.at = "sleep" /\ calls = 1 /\ timer = 2000
  /\ Results[1].attempts = 2 /\ Results[2].attempts = 2

\* C13: at every point of a run at most one HTTP request is open, and it is the
\* one the running probe awaits: across the probes and among the link fetches of
\* the link probe a request is sent only when the one before it has ended or was
\* destroyed, and no request is open during a backoff wait, between two probes
\* or after the last probe.
C13_OneRequestAtATime ==
  /\ inFlight \in {0, 1}
  /\ inFlight = 1 <=> exec.at = "testFn"
  /\ inFlight = 1 <=> request # NoRequest
  /\ inFlight = 1 => (fetched # <<>> /\ request.url = fetched[Len(fetched)])
  /\ exec.at = "sleep" => inFlight = 0
  /\ timer # 0 => inFlight = 0
  /\ pc # "awaitExecuteTest" => inFlight = 0

\* The link probe awaits the fetch of its twentieth link, in its second attempt:
\* the first attempt ended with a link whose fetch timed out, and a backoff wait
\* was made.
C13_Witness ==
  /\ idx = 5 /\ frame.label = "link" /\ frame.i = 20 /\ inFlight = 1
  /\ Len(fetched) = 21
  /\ calls = 2 /\ waits = <<2000>>
  /\ Includes(lastThrown.message, TimeoutMessage)

\* C14: each invocation of makeRequest issues exactly one outbound request: the
\* requests sent in an attempt are, one for one and in order, the URLs makeRequest
\* was called with, whatever the answers were (a 3xx response or a failure is
\* followed by no second request for the same call).
C14_OneRequestPerCall ==
  /\ Len(fetched) = Len(asked)
  /\ fetched = asked

\* C15: every makeRequest call eventually settles, with a response, a network
\* error or a timeout: no request stays pending forever, so again and again no
\* request is awaited.
C15_EveryRequestSettles == []<>(request = NoRequest)

\* C16: a single attempt of a test (one invocation of the probe, with all the
\* requests it makes) ends within the configured timeout of its start: while an
\* attempt runs, and when it has ended, no more than TIMEOUT ms have passed
\* since it started.
C16_AttemptWithinTimeout ==
  (pc = "awaitExecuteTest" /\ calls > 0) => now - attemptStart <= TIMEOUT.n

\* C17: an attempt of the homepage probe fetches the base URL and passes exactly
\* when the response has status 200, a content-type header that contains
\* text/html and a body that is not empty; after any other response (a 3xx, a
\* missing or other content-type, an empty body) and after a fetch error the
\* attempt has failed.
C17_HomepagePassesIff ==
  (exec.testName = "Homepage loads" /\ answer # NoAnswer) =>
    LET good ==
          /\ answer.ok
          /\ answer.statusCode = 200
          /\ "content-type" \in DOMAIN answer.headers
          /\ Includes(answer.headers["content-type"], "text/html")
          /\ ~answer.empty
    IN  /\ fetched = <<Str(SITE_URL)>>
        /\ good <=> okAt = calls
        /\ good => (Settled /\ exec.ret.ok /\ exec.ret.value.status = "passed")
        /\ ~good =>
             /\ exec.at \in {"loop", "sleep", "done"}
             /\ exec.attempt = calls
             /\ lastThrown # Null /\ exec.lastError = lastThrown
             /\ Settled => exec.ret.value.status = "failed"

\* The second attempt of the homepage probe has failed on a response with status
\* 200 and a body but no content-type header, after a first attempt that failed
\* otherwise.
C17_Witness ==
  /\ exec.testName = "Homepage loads" /\ calls = 2 /\ exec.at = "loop"
  /\ answer # NoAnswer /\ answer.ok
  /\ answer.statusCode = 200 /\ answer.headers = <<>> /\ ~answer.empty
  /\ lastThrown.message = "Expected content-type to include text/html, got "
  /\ ~sameThrows

\* The URLs of the documentation pages, in the order of the pages array.
DocUrls == [k \in DOMAIN DocPages |-> Str(SITE_URL) \o DocPages[k]]

\* C18: an attempt of the documentation probe fetches /docs/, /docs/workflows/
\* and /docs/agents/ in that order; once a page is answered with a status other
\* than 200 the attempt is over, its error names that page and its status, and
\* no later page was fetched in the attempt; a page answered with 200 is
\* followed by the next page, or by a pass after the last one; and when no
\* attempt passes, the result has attempts = maxRetries + 1.
C18_DocsStopAtFirstNon200 ==
  exec.testName = "Documentation pages accessible" =>
    /\ Len(fetched) <= Len(DocUrls)
    /\ fetched = SubSeq(DocUrls, 1, Len(fetched))
    /\ (answer # NoAnswer /\ answer.ok /\ answer.statusCode # 200) =>
         /\ exec.at \in {"loop", "sleep", "done"}
         /\ request = NoRequest
         /\ okAt = 0
         /\ lastThrown = Err("Page " \o DocPages[Len(fetched)] \o " returned status "
                                \o ToString(answer.statusCode))
    /\ (answer # NoAnswer /\ answer.ok /\ answer.statusCode = 200) =>
         IF exec.at = "testFn"
         THEN Len(fetched) > 1 /\ request.url = DocUrls[Len(fetched)]
         ELSE Len(fetched) = Len(DocUrls) /\ okAt = calls
    /\ (Settled /\ okAt = 0 /\ calls > 0) =>
         /\ exec.ret.value.status = "failed"
         /\ exec.ret.value.attempts = MAX_RETRIES.n + 1
         /\ calls = MAX_RETRIES.n + 1

\* With maxRetries = 1 the documentation probe has failed: /docs/ was answered
\* with 200 and /docs/workflows/ with 404 in the second attempt as in the first,
\* /docs/agents/ was not fetched, and the result has two attempts.
C18_Witness ==
  /\ exec.testName = "Documentation pages accessible"
  /\ Settled /\ MAX_RETRIES.n = 1
  /\ exec.ret.value.status = "failed" /\ exec.ret.value.attempts = 2
  /\ exec.ret.value.error = "Page /docs/workflows/ returned status 404"
  /\ sameThrows
  /\ Len(fetched) = 2 /\ fetched[2] = Str(SITE_URL) \o "/docs/workflows/"

\* The URLs of the assets, in the order of the assets array.
AssetUrls == [k \in DOMAIN AssetPaths |-> Str(SITE_URL) \o AssetPaths[k]]

\* C19: an attempt of the assets probe passes exactly when every asset is
\* answered with a status in {200, 301, 302, 403}: after such an answer the next
\* asset is fetched or, after the last asset, the attempt has passed; after an
\* answer with any other status, or a fetch error, the attempt is over and has
\* failed, with an error naming the asset when it was a status. A first attempt
\* that passes, with 403 as with the other accepted statuses, gives attempts = 1
\* and no backoff wait.
C19_AssetsAcceptedStatuses ==
  exec.testName = "Assets load correctly" =>
    /\ Len(fetched) <= Len(AssetUrls)
    /\ fetched = SubSeq(AssetUrls, 1, Len(fetched))
    /\ (answer # NoAnswer /\ answer.ok /\ answer.statusCode \in {200, 301, 302, 403}) =>
         IF exec.at = "testFn"
         THEN Len(fetched) > 1 /\ request.url = AssetUrls[Len(fetched)]
         ELSE /\ Len(fetched) = Len(AssetUrls) /\ okAt = calls
              /\ Settled /\ exec.ret.value.status = "passed"
              /\ exec.ret.value.attempts = calls
    /\ (answer # NoAnswer /\ answer.ok /\ answer.statusCode \notin {200, 301, 302, 403}) =>
         /\ exec.at \in {"loop", "sleep", "done"}
         /\ request = NoRequest
         /\ okAt = 0
         /\ lastThrown = Err("Asset " \o AssetPaths[Len(fetched)]
                                \o " returned unexpected status "
                                \o ToString(answer.statusCode))
    /\ (answer # NoAnswer /\ ~answer.ok) =>
         /\ exec.at \in {"loop", "sleep", "done"}
         /\ okAt = 0 /\ lastThrown = Err(answer.message)
    /\ okAt > 0 =>
         /\ answer # NoAnswer /\ answer.ok
         /\ answer.statusCode \in {200, 301, 302, 403}
         /\ Len(fetched) = Len(AssetUrls)
    /\ okAt = 1 => (exec.ret.value.attempts = 1 /\ waits = <<>>)

\* With retries allowed, the assets probe has passed at its first attempt with
\* the last asset answered with 403.
C19_Witness ==
  /\ exec.testName = "Assets load correctly"
  /\ Settled /\ MAX_RETRIES.n >= 1
  /\ answer # NoAnswer /\ answer.ok /\ answer.statusCode = 403
  /\ exec.ret.value.status = "passed" /\ exec.ret.value.attempts = 1
  /\ calls = 1 /\ waits = <<>> /\ lastThrown = Null
  /\ fetched = <<Str(SITE_URL) \o "/favicon.svg", Str(SITE_URL) \o "/_astro/">>

\* C20: in one attempt of the link probe the first request is the homepage and
\* at most 20 further requests are made, one for each of the first links of
\* the page, however many links the homepage has.
C20_AtMostTwentyLinkFetches ==
  exec.testName = "No broken links on homepage" =>
    /\ Len(fetched) <= 20 + 1
    /\ fetched # <<>> => fetched[1] = Str(SITE_URL)
    /\ (exec.at = "testFn" /\ Len(fetched) > 1) =>
         /\ Len(frame.links) <= 20
         /\ \A k \in 2..Len(fetched) : fetched[k] = frame.links[k - 1]

\* An attempt of the link probe against a homepage with 25 distinct links is
\* over after the homepage and the first 20 links were fetched, the last of
\* them /page20.
C20_Witness ==
  /\ exec.testName = "No broken links on homepage"
  /\ site = "large"
  /\ exec.at \in {"loop", "sleep", "done"}
  /\ Len(fetched) = 21
  /\ fetched[21] = Str(SITE_URL) \o "/page20"
  /\ Len(extractLinks(LargePage, Str(SITE_URL)).links) = 25

\* The link probe awaits the fetch of one of its links to check.
LinkAwaited ==
  /\ exec.testName = "No broken links on homepage"
  /\ exec.at = "testFn" /\ frame.label = "link"
  /\ request # NoRequest

\* The broken links found so far, and the link just answered by a if it is
\* broken: its fetch raised an error or returned a status >= 400.
FoundWith(found, url, a) ==
  IF ~a.ok THEN found \o <<[url |-> url, error |-> a.message]>>
  ELSE IF a.statusCode >= 400 THEN found \o <<[url |-> url, status |-> a.statusCode]>>
  ELSE found

\* The message lists the broken link b with its status or its error.
ListsBroken(message, b) ==
  Includes(message, b.url \o " (" \o (IF "status" \in DOMAIN b THEN ToString(b.status)
                                                                 ELSE b.error) \o ")")

DownScanDone ==
  /\ down > 0 /\ faults = 0
  /\ exec.testName = "No broken links on homepage"
  /\ exec.at \in {"loop", "sleep", "done"}
  /\ Len(fetched) > 1

\* The attempt failed with the page that is down as its one broken link.
DownReported ==
  /\ okAt = 0
  /\ lastThrown = Err("Found 1 broken links: " \o PageUrl(SITE_URL, down) \o " (500)")
  /\ exec.lastError = lastThrown
  /\ Settled => exec.ret.value.status = "failed"

\* C22, as stated: whichever of the 25 links of the homepage is the one that
\* returns 500, the attempt of the link probe fetches 20 links and fails,
\* reporting that link by its URL and the status 500.
C22_AnyBrokenLinkReported ==
  DownScanDone => (Len(fetched) = 20 + 1 /\ DownReported)

\* C22, amended: the attempt fetches the first 20 links of the homepage; it
\* fails, reporting the link by its URL and the status 500, when the link that
\* returns 500 is among these, and passes without having fetched that link when
\* it is one of the last 5.
C22_BrokenLinkAmongChecked ==
  DownScanDone =>
    /\ Len(fetched) = 20 + 1
    /\ IF down <= 20
       THEN DownReported /\ \E k \in 2..Len(fetched) : fetched[k] = PageUrl(SITE_URL, down)
       ELSE /\ okAt = calls /\ Settled /\ exec.ret.value.status = "passed"
            /\ \A k \in 2..Len(fetched) : fetched[k] # PageUrl(SITE_URL, down)

\* With one retry the link probe has failed twice against the homepage whose
\* 20th link returns 500, and its result is failed with that link as error.
C22_Witness ==
  /\ DownScanDone /\ down = 20
  /\ Settled /\ calls = 2
  /\ exec.ret.value.status = "failed" /\ exec.ret.value.attempts = 2
  /\ exec.ret.value.error = "Found 1 broken links: https://example.com/page20 (500)"

\* C23: a retry of the link probe runs the whole probe again.  Every attempt,
\* the first and each of the at most maxRetries later ones, starts by fetching
\* the homepage with no links and no broken links kept; the links to check are
\* taken anew from the homepage just fetched, with no broken link yet; and an
\* attempt that has started to fetch links ends only when it has fetched all
\* of them.
C23_RetryRerunsWholeProbe ==
  [][ (exec.testName = "No broken links on homepage" /\ exec'.testName = exec.testName) =>
        /\ calls' # calls =>
             /\ calls' = calls + 1 /\ calls' <= MAX_RETRIES.n + 1
             /\ asked' = <<Str(SITE_URL)>>
             /\ UrlParses(Str(SITE_URL)) =>
                  /\ exec'.at = "testFn"
                  /\ fetched' = <<Str(SITE_URL)>> /\ request'.url = Str(SITE_URL)
                  /\ frame' = [Frame(exec.testName) EXCEPT !.label = "homepage"]
        /\ (frame.label = "homepage" /\ frame'.label = "link") =>
             /\ frame'.brokenLinks = <<>>
             /\ frame'.links = [k \in 1..20 |-> PageUrl(SITE_URL, k)]
             /\ request'.url = frame'.links[1]
             /\ fetched' = <<Str(SITE_URL), frame'.links[1]>>
        /\ (LinkAwaited /\ request' # request /\ exec'.at # "testFn") =>
             /\ Len(fetched) = 20 + 1
             /\ \A k \in 1..20 : fetched[k + 1] = PageUrl(SITE_URL, k)
    ]_vars

\* The second attempt of the link probe, 2 s after the first failed on the
\* first link of the homepage, awaits the last of the 20 links, having fetched
\* the homepage and every link again and found the one broken link again.
C23_Witness ==
  /\ LinkAwaited /\ down = 1
  /\ calls = 2 /\ waits = <<2000>>
  /\ lastThrown = Err("Found 1 broken links: " \o PageUrl(SITE_URL, 1) \o " (500)")
  /\ Len(fetched) = 21 /\ fetched[1] = Str(SITE_URL) /\ frame.i = 20
  /\ frame.brokenLinks = <<[url |-> PageUrl(SITE_URL, 1), status |-> 500]>>

\* A call of extractLinks has returned.
Extracted == call.fn = "extractLinks" /\ call.at = "returned"

\* The hrefs of the anchors of a page.
HrefsOf(html) == {html[i].href : i \in {j \in DOMAIN html : html[j].tag = "a"}}

\* The string in lower case.
RECURSIVE LowerCase(_)
LowerCase(s) ==
  LET upper == "ABCDEFGHIJKLMNOPQRSTUVWXYZ"
      lower == "abcdefghijklmnopqrstuvwxyz"
      c == SubSeq(s, 1, 1)
      at == {i \in 1..26 : SubSeq(upper, i, i) = c}
  IN  IF s = "" THEN ""
      ELSE (IF at = {} THEN c ELSE SubSeq(lower, CHOOSE i \in at : TRUE, CHOOSE i \in at : TRUE))
             \o LowerCase(SubSeq(s, 2, Len(s)))

\* The href is a fragment only, or its scheme (which is read without regard to
\* case) is javascript, mailto or tel.
NoPageHref(href) ==
  \/ StartsWith(href, "#")
  \/ \E scheme \in {"javascript:", "mailto:", "tel:"} : StartsWith(LowerCase(href), scheme)

\* C24: every link extractLinks returns has the host of baseUrl and comes from
\* an href of the page that is neither a fragment nor a javascript:, mailto: or
\* tel: href.
C24_NoSkippedNoForeignLink ==
  Extracted =>
    \A k \in DOMAIN call.links :
      /\ UrlHost(call.links[k]) = UrlHost(call.baseUrl)
      /\ \E href \in HrefsOf(call.html) :
           ~NoPageHref(href) /\ AbsoluteUrl(href, call.baseUrl) = call.links[k]

\* The absolute URLs extractLinks pushes for a page, in the order of the page.
PushedLinks(html, baseUrl) == ScanLinks(MatchedHrefs(html), baseUrl, <<>>).links

\* The position of the first occurrence of x in the sequence s.
FirstAt(s, x) == CHOOSE i \in DOMAIN s : s[i] = x /\ \A j \in 1..(i - 1) : s[j] # x

\* C25: the links extractLinks returns are pairwise different, they are exactly
\* the absolute URL strings it made of the hrefs it keeps, and they stand in the
\* order in which these strings first occur in the page.
C25_DeduplicatedInOrder ==
  Extracted =>
    LET pushed == PushedLinks(call.html, call.baseUrl)
        links == call.links
    IN  /\ \A i, j \in DOMAIN links : i # j => links[i] # links[j]
        /\ {links[i] : i \in DOMAIN links} = {pushed[i] : i \in DOMAIN pushed}
        /\ \A i, j \in DOMAIN links :
             i < j => FirstAt(pushed, links[i]) < FirstAt(pushed, links[j])

\* A page with the root-relative link /a, the relative link b and then the
\* absolute form of /a: extractLinks has returned /a and b, each once, /a first.
C25_Witness ==
  /\ Extracted
  /\ call.baseUrl = "https://example.com"
  /\ call.html = <<Anchor("/a"), Anchor("b"), Anchor("https://example.com/a")>>
  /\ call.links = <<"https://example.com/a", "https://example.com/b">>

RECURSIVE SumOf(_)
SumOf(s) == IF s = <<>> THEN 0 ELSE Head(s) + SumOf(Tail(s))

\* C26: the first attempt of a probe starts at the time executeTest took as
\* startTime, and the duration of the result executeTest returns, passed or
\* failed, is the time from then to the return; a result with attempts = n was
\* preceded by n - 1 backoff waits and its duration is at least their sum.
C26_DurationCoversBackoff ==
  /\ (exec.at # "idle" /\ calls = 1) => attemptStart = exec.startTime
  /\ (Settled /\ exec.ret.ok) =>
       /\ exec.ret.value.duration = now - exec.startTime
       /\ Len(waits) = exec.ret.value.attempts - 1
       /\ exec.ret.value.duration >= SumOf(waits)

\* A probe has passed at its third attempt after waits of 2 s and 4 s, the
\* first attempt having ended by a timeout of 300 s: its duration is 306 s.
C26_Witness ==
  /\ Settled /\ exec.ret.ok
  /\ exec.ret.value.status = "passed" /\ exec.ret.value.attempts = 3
  /\ waits = <<2000, 4000>>
  /\ exec.ret.value.duration = 306000

\* The value of the output field of that name.
Output(name) ==
  LET i == CHOOSE j \in DOMAIN outputs : outputs[j][1] = name IN outputs[i][2]

\* C27: when the output fields are written, the report file has been written
\* and the process has not yet exited before; the fields are results, passed,
\* total, passed-count and failed-count; results is the report of the file,
\* passed is 'true' exactly when summary.failed is 0 and 'false' otherwise, the
\* three counts are the counters of the summary, and the process then exits with
\* 0 exactly when passed is 'true'.
C27_OutputsAgree ==
  outputs # <<>> =>
    /\ file.written /\ fileWrites = 1 /\ ~fatal
    /\ pc \in {"exitCheck", "exited"}
    /\ [i \in DOMAIN outputs |-> outputs[i][1]]
         = <<"results", "passed", "total", "passed-count", "failed-count">>
    /\ Output("results") = file.content /\ file.content = testResults
    /\ Output("passed") \in {"true", "false"}
    /\ Output("passed") = "true" <=> Summary.failed = 0
    /\ Output("total") = ToString(Summary.total)
    /\ Output("passed-count") = ToString(Summary.passed)
    /\ Output("failed-count") = ToString(Summary.failed)
    /\ pc = "exited" => (exitCode = 0 <=> Output("passed") = "true")

\* A run has exited with 1 after it wrote the outputs of a report with three
\* probes passed and two failed.
C27_Witness ==
  /\ pc = "exited" /\ exitCode = 1
  /\ outputs # <<>>
  /\ Output("passed") = "false" /\ Output("total") = "5"
  /\ Output("passed-count") = "3" /\ Output("failed-count") = "2"

\* C28: no step changes or removes a recorded result; the report changes only
\* in the step in which runTests takes the result executeTest has returned,
\* never while the probe is still executing; that step appends this one result,
\* as returned, for the probe whose turn it is; and the report written to the
\* file does not change afterwards.
C28_ResultsImmutable ==
  [][ /\ Len(Results') >= Len(Results)
      /\ SubSeq(Results', 1, Len(Results)) = Results
      /\ testResults' # testResults =>
           /\ pc = "awaitExecuteTest" /\ Settled /\ exec.ret.ok
           /\ Results' = Append(Results, exec.ret.value)
           /\ exec.ret.value.name = Tests[Len(Results')]
      /\ file.written => file' = file
    ]_vars

\* The result of the second probe, failed after two attempts, stands unchanged
\* in the report after the fifth probe was recorded, and the third probe passed.
C28_Witness ==
  /\ Len(Results) = 5
  /\ Results[2].name = "Documentation pages accessible"
  /\ Results[2].status = "failed" /\ Results[2].attempts = 2
  /\ Results[2].error = "Page /docs/ returned status 404"
  /\ Results[3].status = "passed"

\* A call of calculateVersionBump has returned.
Bumped == call.fn = "calculateVersionBump" /\ call.at = "returned"

\* The breaking signals of a conventional commit: a ! right before the colon
\* that ends the type and scope of the first line, or BREAKING CHANGE: in the
\* message.
BreakingSignal(message) ==
  LET firstLine == FirstLine(message)
      n == WordPrefixLen(firstLine)
      rest == SubSeq(firstLine, n + 1, Len(firstLine))
  IN  \/ /\ n > 0
         /\ \/ StartsWith(rest, "!:")
            \/ /\ StartsWith(rest, "(")
               /\ \E j \in 3..Len(rest) :
                    SubSeq(rest, j, j) = ")" /\ StartsWith(SubSeq(rest, j + 1, Len(rest)), "!:")
      \/ Includes(message, "BREAKING CHANGE:")

\* The type of a conventional commit, if its first line has one.
CommitType(message) == TypeMatch(FirstLine(message))

\* The bump the rule of precedence gives for a list of commits; null is none.
RuleBump(commits) ==
  IF \E i \in DOMAIN commits : BreakingSignal(commits[i]) THEN "major"
  ELSE IF \E i \in DOMAIN commits : CommitType(commits[i]) = "feat" THEN "minor"
  ELSE IF \E i \in DOMAIN commits : CommitType(commits[i]) \in {"fix", "perf", "refactor"}
       THEN "patch"
  ELSE NullString

\* The list in reverse order.
Reversed(s) == [i \in DOMAIN s |-> s[Len(s) + 1 - i]]

\* C29: calculateVersionBump returns major, minor, patch or none (null): major
\* if a commit carries a breaking signal, otherwise minor if a commit is a
\* feat, otherwise patch if a commit is a fix, perf or refactor, otherwise
\* none; and it returns the same for the commits in reverse order.
C29_BumpByPrecedence ==
  Bumped =>
    /\ call.bump \in {"major", "minor", "patch", NullString}
    /\ call.bump = RuleBump(call.commits)
    /\ call.bump = calculateVersionBump(Reversed(call.commits))

\* The required fields of the deployment data that are missing or malformed.
BadFields(data) ==
  {f \in {"environment", "commit", "deployer", "status"} : Falsy(data[f])}
    \cup (IF data.environment \notin {"staging", "production"} THEN {"environment"} ELSE {})
    \cup (IF ~IsSha(data.commit) THEN {"commit"} ELSE {})
    \cup (IF data.status \notin {"pending", "success", "failed", "rolled_back"}
          THEN {"status"} ELSE {})

\* C30: validateDeploymentData returns valid exactly when its list of reasons
\* is empty, and the list holds one reason for each required field that is
\* missing or malformed and no other; createDeploymentRecord throws, with no
\* record, exactly when some required field is missing or malformed, and
\* otherwise returns a record with the environment, commit, deployer and status
\* of the data.
C30_ValidationAndRecord ==
  /\ (call.fn = "validateDeploymentData" /\ call.at = "returned") =>
       LET errors == call.validation.errors
       IN  /\ call.validation.valid <=> errors = <<>>
           /\ Len(errors) = Cardinality(BadFields(call.data))
           /\ \A f \in BadFields(call.data) :
                Cardinality({i \in DOMAIN errors : StartsWith(errors[i], f \o " ")}) = 1
  /\ (call.fn = "createDeploymentRecord" /\ call.at # "called") =>
       /\ call.at = "threw" <=> BadFields(call.data) # {}
       /\ call.at = "threw" => "record" \notin DOMAIN call
       /\ call.at = "returned" =>
            /\ call.record.environment = call.data.environment
            /\ call.record.commit = call.data.commit
            /\ call.record.deployer = call.data.deployer
            /\ call.record.status = call.data.status

\* createDeploymentRecord has thrown for data with an unknown environment, a
\* short commit and no deployer, giving the three reasons in one message.
C30_Witness ==
  /\ call.fn = "createDeploymentRecord" /\ call.at = "threw"
  /\ call.data.environment = "dev" /\ call.data.commit = "abc1234"
  /\ call.data.deployer = Unset /\ call.data.status = "success"
  /\ call.message = "Invalid deployment data: environment must be \"staging\" or \"production\", commit must be a valid 40-character SHA, deployer is required"

\* C31: executeTest waits only between attempts.  When it returns a result with
\* attempts = n, passed or failed, the probe was invoked n times and exactly
\* n - 1 backoff waits were made, none of them pending or made after the last
\* attempt, and they add up to 2^n - 2 seconds; with maxRetries = 0 the probe
\* is invoked at most once and no wait is ever made.
C31_WaitsOnlyBetweenAttempts ==
  /\ (Settled /\ exec.ret.ok) =>
       LET n == exec.ret.value.attempts
       IN  /\ calls = n
           /\ Len(waits) = n - 1
           /\ SumOf(waits) = ((2 ^ n) - 2) * 1000
           /\ timer = 0
  /\ MAX_RETRIES = Num(0) =>
       /\ calls <= 1
       /\ waits = <<>>
       /\ timer = 0

\* A probe has failed at each of its three attempts, with maxRetries = 2: two
\* waits, of 2 s and of 4 s, and none after the third attempt.
C31_Witness ==
  /\ Settled /\ exec.ret.ok
  /\ MAX_RETRIES = Num(2)
  /\ exec.ret.value.status = "failed" /\ exec.ret.value.attempts = 3
  /\ waits = <<2000, 4000>> /\ timer = 0

\* No request stays open for ever: again and again the probe awaits none.
EveryRequestEnds == []<>(request = NoRequest)

\* C32: a run with maxRetries >= 0 whose requests all end comes to its exit,
\* and at every moment of it, so before the report is written as well, it has
\* invoked the probes at most 5 * (maxRetries + 1) times and has sent at most
\* 28 * (maxRetries + 1) requests.
C32_TerminatesWithinBudget ==
  /\ []((RetriesValid /\ tally.counting) =>
          /\ tally.attempts <= 5 * (MAX_RETRIES.n + 1)
          /\ tally.requests <= 28 * (MAX_RETRIES.n + 1))
  /\ (RetriesValid /\ EveryRequestEnds) => <>Exited

\* With maxRetries = 0 every probe has passed at its only attempt and the
\* report is written: 5 invocations and 28 requests, 21 of them by the link
\* probe.
C32_Witness ==
  /\ MAX_RETRIES = Num(0)
  /\ file.written /\ Summary.passed = 5
  /\ tally.counting /\ tally.attempts = 5 /\ tally.requests = 28

\* A late event of the request that ended last is delivered in this step.
LateStep ==
  /\ late.following /\ late'.url = late.url
  /\ late'.events # late.events /\ late'.events \subseteq late.events

\* C33: the promise of a makeRequest call is settled by the first of the events
\* end, error and timeout of its request, with what the probe sees, and it
\* stays settled with that: an event of the same request that comes later
\* changes neither the promise nor anything of the program, the outcome the
\* probe saw and the request that is open by then included.
C33_FirstEventDecides ==
  /\ []((late.following /\ late.url # "") =>
          late.promise = [state |-> "settled", value |-> late.seen])
  /\ [][LateStep =>
          /\ late'.promise = late.promise
          /\ UNCHANGED <<request, frame, exec, answer, inFlight, testResults, observed>>]_vars

\* A request has ended by its timeout and the probe has gone on to a request
\* for another URL; the error of the destroyed request was emitted then, and
\* the promise is still rejected with the timeout.
C33_Witness ==
  /\ late.following /\ late.events = {"end"}
  /\ late.seen = Rejected(TimeoutMessage)
  /\ late.promise = [state |-> "settled", value |-> Rejected(TimeoutMessage)]
  /\ request # NoRequest /\ request.url # late.url

\* C34: when MAX_RETRIES is negative or NaN, no probe is ever invoked and no
\* request is sent; executeTest is called for the first test only and rejects
\* while it builds the failed result, no result is recorded, neither the report
\* file nor the outputs are written, and the process exits through the handler
\* of fatal errors with status 1.
C34_InvalidRetriesAbortRun ==
  ~RetriesValid =>
    /\ calls = 0 /\ asked = <<>> /\ request = NoRequest /\ waits = <<>>
    /\ Len(started) <= 1
    /\ Settled => ~exec.ret.ok
    /\ Results = <<>> /\ Summary.total = 0
    /\ ~file.written /\ fileWrites = 0 /\ outputs = <<>>
    /\ pc \in {"start", "awaitExecuteTest", "exited"}
    /\ Exited => fatal /\ exitCode = 1

\* MAX_RETRIES=abc: the run has exited with status 1 through the handler of fatal
\* errors, executeTest having been called for the homepage probe only.
C34_Witness ==
  /\ MAX_RETRIES = NaN
  /\ Exited /\ fatal /\ exitCode = 1
  /\ started = <<"Homepage loads">> /\ calls = 0
  /\ Results = <<>> /\ ~file.written

\* The absolute URLs of the hrefs of a page that are not fragments nor
\* javascript:, mailto: or tel: hrefs and that have the host of baseUrl, in the
\* order of the page.
RECURSIVE SameHostLinks(_, _)
SameHostLinks(html, baseUrl) ==
  IF html = <<>> THEN <<>>
  ELSE LET e == Head(html)
           rest == SameHostLinks(Tail(html), baseUrl)
       IN  IF e.tag = "a" /\ ~NoPageHref(e.href)
              /\ UrlHost(AbsoluteUrl(e.href, baseUrl)) = UrlHost(baseUrl)
           THEN <<AbsoluteUrl(e.href, baseUrl)>> \o rest
           ELSE rest

\* The first min(20, n) of the n distinct same-host links of a page.
FirstTwentyLinks(html, baseUrl) ==
  LET distinct == Dedup(SameHostLinks(html, baseUrl), {})
  IN  SubSeq(distinct, 1, IF Len(distinct) < 20 THEN Len(distinct) ELSE 20)

\* The links fetched so far in the attempt of the link probe.
LinksFetched == SubSeq(fetched, 2, Len(fetched))

\* The attempt of the link probe read a homepage and has fetched its last link.
LinkScanOver ==
  /\ exec.testName = "No broken links on homepage"
  /\ Len(fetched) >= 1
  /\ exec.at \in {"loop", "sleep", "done"}
  /\ lastThrown \notin {Err(NetworkErrorMessage), Err(TimeoutMessage),
                         Err("Homepage returned status 301"),
                         Err("Homepage returned status 404")}

\* C35: the links the link probe fetches in one attempt are the first
\* min(20, n) of the n distinct same-host links of the homepage, in the order
\* of the page and each one once: hrefs that are excluded, of another host or
\* repeated take no place among the 20.
C35_LimitAfterFilterAndDedup ==
  (site = "mixed" /\ UrlParses(Str(SITE_URL))
     /\ exec.testName = "No broken links on homepage" /\ Len(fetched) >= 1) =>
    LET expected == FirstTwentyLinks(served, Str(SITE_URL))
    IN  /\ Len(LinksFetched) <= Len(expected)
        /\ LinksFetched = SubSeq(expected, 1, Len(LinksFetched))
        /\ \A i, j \in DOMAIN LinksFetched : i # j => LinksFetched[i] # LinksFetched[j]
        /\ (LinkScanOver /\ okAt = calls) => LinksFetched = expected

\* The same for the homepages where every javascript:, mailto: and tel: href
\* is written in lower case.
LowerCaseOnly_LimitAfterFilterAndDedup ==
  served # CapitalMixedPage => C35_LimitAfterFilterAndDedup

\* An attempt against the long homepage has passed after the fetch of /page1
\* to /page20, and one against the short homepage after the fetch of two links.
LongPageScanned ==
  /\ site = "mixed" /\ served = LongMixedPage /\ LinkScanOver /\ okAt = calls
  /\ Len(LinksFetched) = 20 /\ LinksFetched[20] = Str(SITE_URL) \o "/page20"

ShortPageScanned ==
  /\ site = "mixed" /\ served = ShortMixedPage /\ LinkScanOver /\ okAt = calls
  /\ LinksFetched = <<Str(SITE_URL) \o "/page1", Str(SITE_URL) \o "/page2">>

\* The link probe runs against the homepage with the href that is no URL.
NoHostHrefServed ==
  /\ site = "mixed" /\ served = NoHostHrefPage /\ UrlParses(Str(SITE_URL))
  /\ exec.testName = "No broken links on homepage"

\* C36: against a homepage with an href that does not parse as a URL once it
\* is resolved, an attempt of the link probe fetches no link: when the homepage
\* is answered with 200 the attempt ends at once, failed with the error of the
\* URL parser, and the probe ends failed after maxRetries + 1 attempts.
C36_UnparsedHrefFailsProbe ==
  /\ [](NoHostHrefServed =>
          /\ Len(fetched) <= 1 /\ frame.label # "link" /\ okAt = 0
          /\ (Settled /\ RetriesValid) =>
               /\ exec.ret.ok /\ exec.ret.value.status = "failed"
               /\ exec.ret.value.attempts = MAX_RETRIES.n + 1
               /\ calls = MAX_RETRIES.n + 1)
  /\ [][ (NoHostHrefServed /\ exec.at = "testFn" /\ request # NoRequest /\ request' # request
          /\ answer'.ok /\ answer'.statusCode = 200) =>
         /\ exec'.at \in {"loop", "done"}
         /\ lastThrown' = Err("Invalid URL")
         /\ request' = NoRequest /\ fetched' = <<Str(SITE_URL)>>
     ]_vars

\* With one retry the link probe has ended failed after two attempts against
\* that homepage, each answered with 200, with the parser's error as its error.
C36_Witness ==
  /\ NoHostHrefServed /\ Settled /\ MAX_RETRIES.n = 1 /\ faults = 0
  /\ sameThrows /\ lastThrown = Err("Invalid URL")
  /\ exec.ret.value.status = "failed" /\ exec.ret.value.attempts = 2
  /\ exec.ret.value.error = "Invalid URL"
  /\ fetched = <<Str(SITE_URL)>>

\* C37: the report file is written after the five probes were recorded and
\* before any output; when the write fails the run ends in that step, through
\* the handler of fatal errors and with status 1, whatever the summary says, and
\* the outputs are never written.
C37_ReportWriteFailureIsFatal ==
  /\ [](pc = "writeReport" => (Len(Results) = 5 /\ outputs = <<>> /\ ~file.written))
  /\ [][ (pc = "writeReport" /\ ~file'.written) =>
           (pc' = "exited" /\ fatal' /\ exitCode' = 1 /\ outputs' = <<>>) ]_vars
  /\ []((Exited /\ Len(Results) = 5 /\ ~file.written) =>
          (fatal /\ exitCode = 1 /\ outputs = <<>>))

\* The five probes passed, the report file was not written, and the process
\* has exited with 1 through the handler of fatal errors, without outputs.
C37_Witness ==
  /\ Exited /\ fatal /\ exitCode = 1
  /\ Len(Results) = 5 /\ Summary.failed = 0 /\ Summary.passed = 5
  /\ ~file.written /\ outputs = <<>>

\* Both tools have returned for the same commit messages.
BothReturned == call.fn = "calculateVersionBump" /\ call.at = "returned" /\ "changelog" \in DOMAIN call

\* The changelog has the section of the breaking changes.
HasBreakingSection(changelog) ==
  ~changelog.threw /\ Includes(changelog.text, "### ⚠ BREAKING CHANGES\n\n")

\* C38: for the same commit messages, calculateVersionBump returns major
\* exactly when the changelog of generateChangelog has a BREAKING CHANGES
\* section.
C38_BreakingAgreement ==
  BothReturned => (call.bump = "major" <=> HasBreakingSection(call.changelog))

\* The first line is a conventional commit with no ! but the one that may
\* stand before its colon.
PlainHeader(message) ==
  LET firstLine == FirstLine(message)
      bangs == {i \in 1..Len(firstLine) : SubSeq(firstLine, i, i) = "!"}
  IN  /\ TypeMatch(firstLine) # NullString
      /\ \A i \in bangs :
           StartsWith(SubSeq(firstLine, i + 1, Len(firstLine)), ":") /\ BreakingSignal(message)

\* The same for the lists of such messages.
PlainHeaders_BreakingAgreement ==
  (BothReturned /\ \A i \in DOMAIN call.commits : PlainHeader(call.commits[i]))
    => (call.bump = "major" <=> HasBreakingSection(call.changelog))

\* The changelog of the three commits of which one has the ! before its colon.
BreakingSectionWritten ==
  /\ BothReturned
  /\ call.commits = <<"feat: add search", "feat(ui)!: new layout", "fix(api): handle null">>
  /\ call.bump = "major"
  /\ call.changelog.text =
       "## [1.2.0] - 2026-01-15\n\n### ⚠ BREAKING CHANGES\n\n* new layout\n\n"
         \o "### Features\n\n* add search\n* **ui**: new layout\n\n"
         \o "### Bug Fixes\n\n* **api**: handle null\n\n"

====
